---- MODULE Spec2Model ----
(***************************************************************************)
(* Cellular-automaton traffic simulator (Nagel-Schreckenberg).  The model  *)
(* follows the element package (cells, traffic lights, vehicles) and the   *)
(* per-tick driver of main.go.  Two schedulers of the repository are       *)
(* modelled:                                                               *)
(*   Spec      simulator/vehicleProcessor.go with element/vehicle.go       *)
(*             (exported SystemOut): workers own near-equal slices, the    *)
(*             promote workers call UpdateActiveState, the move workers    *)
(*             call SystemIn and Move, the drain calls SystemOut.          *)
(*   SpecPool  the channel-fed pool (unnamed/part_010) with the vehicle    *)
(*             whose Move calls systemOut itself: the promote workers      *)
(*             call UpdateActiveState and SystemIn, the move workers Move. *)
(* Every acquisition of a cell mutex is one atomic step of a worker.       *)
(* Further specifications share the variables:                            *)
(*   SpecLive    Spec with closed vehicles only and no last tick, under    *)
(*               weak fairness of the main loop (the loop never stops).    *)
(*   SpecFair    both schedulers on the same demand, under weak fairness   *)
(*               of the goroutines.                                        *)
(*   SpecDemand  Spec with the goroutines of the generation that fail.     *)
(*   SpecLight   one TrafficLightCell under Cycle, SetCount and            *)
(*               ChangeInterval.                                           *)
(*   SpecWriter  the data writes of main (unnamed/part_000): the guard     *)
(*               dataWriteChan and the worker pool that runs the writes.   *)
(*   SpecVehicle one Vehicle on a ring of cells under the operations of    *)
(*               its lifecycle, one Move per time step.                    *)
(*   SpecWorkerPool  the WorkerPool of main.go: goroutines that call       *)
(*               Submit and Stop, and the workers of Start.                *)
(*   SpecCell    one CommonCell under Load and Unload.                     *)
(***************************************************************************)
EXTENDS Integers, Sequences, FiniteSets, TLC

\* ---------------------------------------------------------------- bounds
NumCells == 3
SpeedLimit == 2
MaxCapacity == 2
MaxVeh == 2
MaxVehPool == 3
NumWorkers == 2
MaxTick == 2
MaxTickPool == 2
NumClosed == 1
MaxAcc == 1
LightInterval == 2
MaxPeriod == 4
RingSize == 4
MaxClock == 3
MaxSetOD == 2
MaxWriteTicks == 3
MaxSliceLen == 5
MaxSliceWorkers == 4
NumCallers == 2
MaxSubmits == 2
MaxStops == 2

\* ------------------------------------------------------ program constants
GreenLo == 0
OccupyUnit == 1
RoadSpeed == 5
SlowSpeed == 1
CarId == 1
MinInitVelocity == 1
MaxInitVelocity == 2

\* CreateCycleGraph: greenPhaseEnd = round(initInterval * 0.3)
GreenHi == (3 * LightInterval + 5) \div 10

Cells == 0 .. (NumCells - 1)
LightCells == {0}
NoCell == 0 - 1
VehSlots == 1 .. (IF MaxVeh > MaxVehPool THEN MaxVeh ELSE MaxVehPool)
Workers == 1 .. NumWorkers

VARIABLES
    t,                    \* timeStep of the main loop
    pcMain,               \* position of the main goroutine in the tick
    order,                \* sub-phases finished in the current tick, in order
    slices,               \* TRUE: slice scheduler, FALSE: channel-fed pool
    genLimit,             \* number of vehicle ids the run may hand out
    closedLimit,          \* number of closed vehicles InitFixedVehicle creates
    origins,              \* cells the demand may pick as a trip origin
    tripRanges,           \* the pairs the run's calls of TripDistanceRange return
    slowDraws,            \* the outcomes of the run's randomSlowing draws
    lastTick,             \* simulation length (timeSteps of the main loop)
    endless,              \* TRUE: the run outlasts every bound on its length
    capacity,             \* capacity shared by the cells of the network
    light,                \* one TrafficLightCell on its own: its fields
    lightRun,             \* the calls of Cycle on it since its counter was last set
    car,                  \* one Vehicle on its own: its fields
    road,                 \* the cells of the ring the vehicle is on
    roadCfg,              \* how the ring and the vehicle were built
    clock,                \* the timeStep the ring has reached
    trail,                \* each Move in state 4: its time, the velocity after each
                          \* step of its rule, the position and velocity it left
    setODs,               \* the calls of SetOD the vehicle accepted
    writer,               \* the data writes of main: dataWriteChan and the worker pool
    wp,                   \* the WorkerPool of main.go and the goroutines that call it
    veh,                  \* vehicle objects, by id
    cells,                \* occupation, container and buffer of every cell
    lightCount,           \* TrafficLightCell.count
    lightPhase,           \* TrafficLightCell.phase
    waitingVehicles, activeVehicles, completedVehicles,
    numVehicleGenerated, numVehiclesWaiting, numVehiclesActive, numVehicleCompleted,
    workers,              \* the goroutines of the running phase
    pending,              \* vehicles of the phase no goroutine has taken yet
    chan,                 \* recordActivatedVehicle / completedVehicleChan
    buf0,                 \* the buffers as the promote phase found them
    rejected,             \* UpdateActiveState returned false in this tick
    promoted,             \* SystemIn ran in this tick
    loadFailed,           \* Move's targetCell.Load returned false in this tick
    retried,              \* Move's targetCell.Loadable was false at the commit in this tick
    dropped,              \* how goroutines of GenerateScheduleVehicle failed in this tick
    moveCalls             \* the calls of Move on each vehicle in this tick

regVars == <<waitingVehicles, activeVehicles, completedVehicles,
             numVehicleGenerated, numVehiclesWaiting, numVehiclesActive,
             numVehicleCompleted>>
lightVars == <<lightCount, lightPhase>>
carVars == <<car, road, roadCfg, clock, trail, setODs>>
benchVars == <<light, lightRun, carVars>>
cfgVars == <<benchVars, writer, wp, slices, genLimit, closedLimit, origins, tripRanges, slowDraws, lastTick, endless, capacity>>
ghostVars == <<buf0, rejected, promoted, loadFailed, retried, dropped, moveCalls>>
poolVars == <<workers, pending, chan>>
vars == <<t, pcMain, order, cfgVars, veh, cells, lightVars, regVars, poolVars, ghostVars>>
\* the simulation, which the operations on a single object leave alone
simVars == <<t, pcMain, order, slices, genLimit, closedLimit, origins, tripRanges,
             slowDraws, lastTick, endless, capacity, veh, cells, lightVars, regVars,
             poolVars, ghostVars, writer, wp>>

\* ------------------------------------------------------------- the graph
\* CreateCycleGraph: an edge i -> i+1 and the closing edge.
Succ(c) == (c + 1) % NumCells

InDegree(c) == Cardinality({u \in Cells : Succ(u) = c})

\* number of edges of the only path from o to d (o # d)
Dist(o, d) == ((d - o) + NumCells) % NumCells

\* utils.ShortestPath on the cycle: o, o+1, ..., d
ShortestPath(o, d) == [k \in 1 .. (Dist(o, d) + 1) |-> (o + k - 1) % NumCells]

\* the (min, max) pairs TripDistanceRange may return, in cells
TripDistanceRange == {<<1, 1>>, <<1, 2>>, <<2, 2>>, <<NumCells, NumCells + 1>>}

\* utils.AccessibleNodesWithinRange
AccessibleNodesWithinRange(o, lo, hi) ==
    {d \in Cells : d # o /\ lo <= Dist(o, d) /\ Dist(o, d) <= hi}

\* ------------------------------------------------------------- the cells
Capacity(c) == capacity

MaxSpeed(c) == SpeedLimit

Occupy(v) == OccupyUnit

IsLight(c) == c \in LightCells

NewCell == [occupation |-> 0, container |-> {}, buffer |-> <<>>]

\* a Loadable that does not look at the phase of a traffic light
LoadableAtRed(cs, ph, c, v) == cs[c].occupation + Occupy(v) <= Capacity(c)

\* CommonCell.Loadable and TrafficLightCell.Loadable
Loadable(cs, ph, c, v) ==
    /\ (IsLight(c) => ph[c])
    /\ cs[c].occupation + Occupy(v) <= Capacity(c)

\* a Load that lost its capacity check
LoadAcceptsAlways(cs, c, v) == TRUE

\* CommonCell.Load: true when the vehicle was put into the container
LoadAccepts(cs, c, v) == ~ (cs[c].occupation + Occupy(v) > Capacity(c))

Load(cs, c, v) ==
    IF LoadAccepts(cs, c, v)
    THEN [cs EXCEPT ![c].container = @ \cup {v},
                    ![c].occupation = @ + Occupy(v)]
    ELSE cs

\* an Unload that forgets to give the occupation back
UnloadKeepsOccupation(cs, c, v) ==
    IF v \in cs[c].container
    THEN [cs EXCEPT ![c].container = @ \ {v}]
    ELSE cs

\* CommonCell.Unload
Unload(cs, c, v) ==
    IF v \in cs[c].container
    THEN [cs EXCEPT ![c].container = @ \ {v},
                    ![c].occupation = @ - Occupy(v)]
    ELSE cs

\* CommonCell.BufferLoad
BufferLoad(cs, c, v) == [cs EXCEPT ![c].buffer = Append(@, v)]

\* index of the first entry of s equal to v, 0 when there is none
FirstIndex(s, v) ==
    IF \E i \in 1 .. Len(s) : s[i] = v
    THEN CHOOSE i \in 1 .. Len(s) : s[i] = v /\ \A j \in 1 .. (i - 1) : s[j] # v
    ELSE 0

RemoveAt(s, i) == [k \in 1 .. (Len(s) - 1) |-> IF k < i THEN s[k] ELSE s[k + 1]]

\* CommonCell.BufferUnload
BufferUnload(cs, c, v) ==
    IF FirstIndex(cs[c].buffer, v) = 0
    THEN cs
    ELSE [cs EXCEPT ![c].buffer = RemoveAt(@, FirstIndex(@, v))]

\* TrafficLightCell.Cycle
CycleCount(n) == IF n + 1 > LightInterval THEN 1 ELSE n + 1

CyclePhase(n) == n > GreenLo /\ n <= GreenHi

\* ---------------------------------------------------------- the vehicles
NoVehicle ==
    [state |-> 0, velocity |-> 0, acceleration |-> 0, flag |-> FALSE,
     origin |-> NoCell, destination |-> NoCell, pos |-> NoCell,
     residualPath |-> <<>>, activiate |-> FALSE, inTime |-> 0, outTime |-> 0]

\* a BufferIn that does not store inTime
BufferedVehicleNoInTime(vel, acc, closed, o, d, time) ==
    [state |-> 3, velocity |-> vel, acceleration |-> acc, flag |-> closed,
     origin |-> o, destination |-> d, pos |-> NoCell,
     residualPath |-> ShortestPath(o, d), activiate |-> FALSE,
     inTime |-> 0, outTime |-> 0]

\* NewVehicle, SetOD, SetPath and BufferIn of a freshly created vehicle
BufferedVehicle(vel, acc, closed, o, d, time) ==
    [state |-> 3, velocity |-> vel, acceleration |-> acc, flag |-> closed,
     origin |-> o, destination |-> d, pos |-> NoCell,
     residualPath |-> ShortestPath(o, d), activiate |-> FALSE,
     inTime |-> time, outTime |-> 0]

Min(a, b) == IF a < b THEN a ELSE b

Max(a, b) == IF a > b THEN a ELSE b

IdleWorker == [pc |-> "idle", v |-> 0, quota |-> 0, total |-> 0, i |-> 0, gap |-> 0]

\* --------------------------------------------- a traffic light on its own
\* NewTrafficLightCell: the counter starts at 0 and the phase at false
NewTrafficLightCell(interval, lo, hi) ==
    [interval |-> interval, lo |-> lo, hi |-> hi, count |-> 0, phase |-> FALSE]

\* the lights NewTrafficLightCell builds without a panic
ValidLights ==
    {NewTrafficLightCell(a[1], a[2], a[3]) :
       a \in {b \in (1 .. MaxPeriod) \X (0 .. MaxPeriod) \X (0 .. MaxPeriod) :
                ~ (b[2] < 0 \/ b[3] <= b[2] \/ b[3] > b[1])}}

\* a Cycle that wraps the counter to 0
CycledWrapsToZero(l) ==
    LET n == IF l.count + 1 > l.interval THEN 0 ELSE l.count + 1
    IN  [l EXCEPT !.count = n, !.phase = (n > l.lo /\ n <= l.hi)]

\* TrafficLightCell.Cycle
Cycled(l) ==
    LET n == IF l.count + 1 > l.interval THEN 1 ELSE l.count + 1
    IN  [l EXCEPT !.count = n, !.phase = (n > l.lo /\ n <= l.hi)]

\* TrafficLightCell.Loadable on a cell holding occupation
LightLoadable(l, occupation, cap) == l.phase /\ occupation + OccupyUnit <= cap

\* the multipliers of ChangeInterval, as numerator and denominator
Multipliers == {<<1, 2>>, <<3, 2>>, <<2, 1>>}

\* int(float64(n) * mul)
Scaled(n, mul) == (n * mul[1]) \div mul[2]

\* TrafficLightCell.ChangeInterval past its panics
IntervalChanged(l, mul) ==
    LET i == Scaled(l.interval, mul)
        c == Scaled(l.count, mul)
        capped == IF c > i THEN i ELSE c
    IN  [l EXCEPT !.interval = i,
                  !.lo = Scaled(l.lo, mul),
                  !.hi = Scaled(l.hi, mul),
                  !.count = IF capped <= 0 THEN 1 ELSE capped]

\* no call of Cycle counted yet, the counter being c
NewRun(c) == [c0 |-> c, calls |-> 0, greens |-> 0]

\* randomSlowing: whether rand.Float64() < slowingProb
SlowOutcomes == {TRUE, FALSE}

\* ------------------------------------------------- a vehicle on its own
\* the ring the vehicle is on: an edge i -> i+1 and the closing edge
RingCells == 0 .. (RingSize - 1)

\* the cells from o on along k edges of the ring, as SetPath is given them
RingPath(o, k) == [i \in 1 .. (k + 1) |-> (o + i - 1) % RingSize]

\* the paths a caller hands to SetPath, the loop back to the start included
RingPaths == {RingPath(o, k) : o \in RingCells, k \in 1 .. RingSize}

\* the origin and destination pairs a caller hands to SetOD
ODPairs == {<<0, 1>>, <<0, RingSize - 1>>, <<2, 0>>, <<0, 0>>}

\* cfg.Trace.TraceRecordInterval when tracing is enabled, else the default
TraceIntervals == {1, 10}

\* NewVehicle: state 0, no origin, no path, an empty trace
NewVehicle(vel, acc, slowing) ==
    [state |-> 0, velocity |-> vel, acceleration |-> acc, slowing |-> slowing,
     origin |-> NoCell, destination |-> NoCell, pos |-> NoCell,
     simplePath |-> <<>>, residualPath |-> <<>>, activiate |-> FALSE,
     inTime |-> 0, outTime |-> 0,
     trace |-> {}, traceInterval |-> 0, lastTraceTime |-> 0]

\* no vehicle is driven on its own
NoCar ==
    /\ car = NewVehicle(0, 0, FALSE)
    /\ road = [c \in RingCells |-> NewCell]
    /\ roadCfg = [lightAt |-> NoCell, slowAt |-> NoCell, traceRecordInterval |-> 1,
                  velocity |-> 0, count |-> 0]
    /\ clock = 0
    /\ trail = <<>>
    /\ setODs = 0

\* ------------------------------------------------ the data writes of main
\* the workers of the pool main builds: runtime.GOMAXPROCS(0) of them
PoolWorkers == 1 .. NumWorkers

\* cfg.Logging.IntervalWriteOtherData
WriteIntervals == {1, 2}

\* a write job: three CSV writes; the guarded job then receives from
\* dataWriteChan
JobSteps(kind) == IF kind = "guarded" THEN 4 ELSE 3

IdlePoolWorker == [kind |-> "none", left |-> 0]

\* main before its loop: the pool started, dataWriteChan empty
NewWriter(every, steps) ==
    [pc |-> "loop", timeStep |-> 0, simDaySteps |-> steps, every |-> every,
     token |-> FALSE, jobs |-> <<>>, closed |-> FALSE, skipped |-> 0,
     busy |-> [w \in PoolWorkers |-> IdlePoolWorker]]

\* the goroutines that call Submit and Stop, and the jobs they submit
Callers == 1 .. NumCallers
JobIds == 1 .. MaxSubmits

\* NewWorkerPool of main.go: the context, the open channel of 2 * workers
\* jobs, closed false, every worker started and in its select; no call yet
NewWorkerPool ==
    [closed |-> FALSE, cancelled |-> FALSE, jobsClosed |-> FALSE, jobs |-> <<>>,
     worker |-> [w \in PoolWorkers |-> [pc |-> "select", job |-> 0]],
     caller |-> [g \in Callers |-> [pc |-> "idle", job |-> 0]],
     submits |-> 0, stops |-> 0,
     late |-> {}, accepted |-> {}, refused |-> {}, ran |-> [j \in JobIds |-> 0],
     closes |-> 0, returned |-> 0, stopped |-> FALSE, panicked |-> FALSE]

\* ------------------------------------------------------------------ Init
\* the simulation builds its lights and vehicles itself: no object on its own
NoBench ==
    /\ writer = NewWriter(1, 0)
    /\ wp = NewWorkerPool
    /\ light = NewTrafficLightCell(LightInterval, GreenLo, GreenHi)
    /\ lightRun = NewRun(0)
    /\ NoCar

InitCommon ==
    /\ t = 0
    /\ pcMain = "init"
    /\ order = <<>>
    /\ veh = [v \in VehSlots |-> NoVehicle]
    /\ cells = [c \in Cells |-> NewCell]
    /\ lightCount \in [LightCells -> 1 .. Max(1, LightInterval - 1)]
    /\ lightPhase = [c \in LightCells |-> FALSE]
    /\ waitingVehicles = {}
    /\ activeVehicles = {}
    /\ completedVehicles = {}
    /\ numVehicleGenerated = 0
    /\ numVehiclesWaiting = 0
    /\ numVehiclesActive = 0
    /\ numVehicleCompleted = 0
    /\ workers = [w \in Workers |-> IdleWorker]
    /\ pending = {}
    /\ chan = {}
    /\ buf0 = [c \in Cells |-> <<>>]
    /\ rejected = {}
    /\ promoted = {}
    /\ loadFailed = {}
    /\ retried = {}
    /\ dropped = {}
    /\ moveCalls = [v \in VehSlots |-> 0]

Init ==
    /\ InitCommon
    /\ NoBench
    /\ capacity \in 1 .. MaxCapacity
    /\ slices = TRUE
    /\ genLimit = MaxVeh
    /\ closedLimit = NumClosed
    /\ origins = Cells
    /\ tripRanges = TripDistanceRange
    /\ slowDraws = SlowOutcomes
    /\ lastTick = MaxTick
    /\ endless = FALSE

InitPool ==
    /\ InitCommon
    /\ NoBench
    /\ capacity \in 1 .. MaxCapacity
    /\ slices = FALSE
    /\ genLimit = MaxVehPool
    /\ closedLimit = NumClosed
    /\ origins = {Succ(c) : c \in LightCells}
    /\ tripRanges = TripDistanceRange
    /\ slowDraws = SlowOutcomes
    /\ lastTick = MaxTickPool
    /\ endless = FALSE

\* a saturated ring in a run without end: as many vehicles as the cells hold
InitLive ==
    /\ InitCommon
    /\ NoBench
    /\ capacity = 1
    /\ slices = TRUE
    /\ genLimit = NumCells
    /\ closedLimit = NumCells
    /\ origins = Cells
    /\ tripRanges = {<<1, 1>>}
    /\ slowDraws = {FALSE}
    /\ lastTick = MaxTick
    /\ endless = TRUE

\* --------------------------------------------------- vehicle generation
\* One goroutine of InitFixedVehicle / GenerateScheduleVehicle that gets a
\* destination: the id is taken, the vehicle buffered and put in waiting.
CreateVehicle(closed, time) ==
    /\ numVehicleGenerated < genLimit
    /\ \E o \in origins, r \in tripRanges :
         \E d \in AccessibleNodesWithinRange(o, r[1], r[2]) :
           \E vel \in MinInitVelocity .. MaxInitVelocity, acc \in 1 .. MaxAcc :
             LET id == numVehicleGenerated + 1 IN
             /\ numVehicleGenerated' = id
             /\ veh' = [veh EXCEPT ![id] = BufferedVehicle(vel, acc, closed, o, d, time)]
             /\ cells' = BufferLoad(cells, o, id)
             /\ waitingVehicles' = waitingVehicles \cup {id}
             /\ numVehiclesWaiting' = numVehiclesWaiting + 1
    /\ UNCHANGED <<activeVehicles, completedVehicles, numVehiclesActive, numVehicleCompleted>>

InitFixedVehicle ==
    /\ pcMain = "init"
    /\ numVehicleGenerated < closedLimit
    /\ CreateVehicle(TRUE, 0)
    /\ UNCHANGED <<t, pcMain, order, cfgVars, lightVars, poolVars, ghostVars>>

EndInitFixedVehicle ==
    /\ pcMain = "init"
    /\ pcMain' = "gen"
    /\ UNCHANGED <<t, order, cfgVars, veh, cells, lightVars, regVars, poolVars, ghostVars>>

GenerateScheduleVehicle ==
    /\ pcMain = "gen"
    /\ CreateVehicle(FALSE, t)
    /\ UNCHANGED <<t, pcMain, order, cfgVars, lightVars, poolVars, ghostVars>>

\* the outcomes of the path finder for a destination in range: a path, an error
PathFinderOutcomes == {"path", "error"}

\* a goroutine of GenerateScheduleVehicle that finds no destination in range:
\* it returns before it takes an id
GenerateNoDestination ==
    /\ pcMain = "gen"
    /\ "destination" \notin dropped
    /\ \E o \in origins, r \in tripRanges : AccessibleNodesWithinRange(o, r[1], r[2]) = {}
    /\ dropped' = dropped \cup {"destination"}
    /\ UNCHANGED <<t, pcMain, order, cfgVars, veh, cells, lightVars, regVars, poolVars,
                   buf0, rejected, promoted, loadFailed, retried, moveCalls>>

\* a goroutine of GenerateScheduleVehicle whose path finder returns an error:
\* NewVehicle(getNextVehicleID(), ...) has taken the id, the vehicle is left
GenerateNoPath ==
    /\ pcMain = "gen"
    /\ "path" \notin dropped
    /\ numVehicleGenerated < genLimit
    /\ "error" \in PathFinderOutcomes
    /\ \E o \in origins, r \in tripRanges : AccessibleNodesWithinRange(o, r[1], r[2]) # {}
    /\ numVehicleGenerated' = numVehicleGenerated + 1
    /\ dropped' = dropped \cup {"path"}
    /\ UNCHANGED <<t, pcMain, order, cfgVars, veh, cells, lightVars, poolVars,
                   waitingVehicles, activeVehicles, completedVehicles,
                   numVehiclesWaiting, numVehiclesActive, numVehicleCompleted,
                   buf0, rejected, promoted, loadFailed, retried, moveCalls>>

\* a main loop that goes from the generation straight to VehicleProcess
EndGenerateSkipsLights ==
    /\ pcMain = "gen"
    /\ pcMain' = "reclaim"
    /\ order' = Append(order, "generate")
    /\ dropped' = {}
    /\ UNCHANGED <<t, cfgVars, veh, cells, lightVars, regVars, poolVars,
                   buf0, rejected, promoted, loadFailed, retried, moveCalls>>

EndGenerate ==
    /\ pcMain = "gen"
    /\ pcMain' = "lights"
    /\ order' = Append(order, "generate")
    /\ dropped' = {}
    /\ UNCHANGED <<t, cfgVars, veh, cells, lightVars, regVars, poolVars,
                   buf0, rejected, promoted, loadFailed, retried, moveCalls>>

\* ---------------------------------------------------------------- lights
CycleLights ==
    /\ pcMain = "lights"
    /\ lightCount' = [c \in LightCells |-> CycleCount(lightCount[c])]
    /\ lightPhase' = [c \in LightCells |-> CyclePhase(CycleCount(lightCount[c]))]
    /\ pcMain' = "reclaim"
    /\ order' = Append(order, "lights")
    /\ UNCHANGED <<t, cfgVars, veh, cells, regVars, poolVars, ghostVars>>

\* --------------------------------------------------------------- reclaim
\* checkCompletedVehicle: the snapshot of the completed set
StartReclaim ==
    /\ pcMain = "reclaim"
    /\ IF completedVehicles = {}
       THEN /\ pcMain' = "promote"
            /\ order' = Append(order, "reclaim")
            /\ UNCHANGED pending
       ELSE /\ pcMain' = "reclaimRun"
            /\ pending' = completedVehicles
            /\ UNCHANGED order
    /\ UNCHANGED <<t, cfgVars, veh, cells, lightVars, regVars, workers, chan, ghostVars>>

\* the loop of checkCompletedVehicle moves on from vehicle v
ReclaimNext(v) ==
    /\ pending' = pending \ {v}
    /\ IF pending \ {v} = {}
       THEN pcMain' = "promote" /\ order' = Append(order, "reclaim")
       ELSE UNCHANGED <<pcMain, order>>
    /\ UNCHANGED <<t, cfgVars, lightVars, workers, chan, ghostVars>>

\* an open vehicle: recorded and deleted from the completed set
ReclaimOpen(v) ==
    /\ pcMain = "reclaimRun"
    /\ v \in pending
    /\ ~ veh[v].flag
    /\ completedVehicles' = completedVehicles \ {v}
    /\ veh' = [veh EXCEPT ![v] = NoVehicle]
    /\ ReclaimNext(v)
    /\ UNCHANGED <<cells, waitingVehicles, activeVehicles, numVehicleGenerated,
                   numVehiclesWaiting, numVehiclesActive, numVehicleCompleted>>

\* a closed vehicle with no destination in range: continue, before the delete
ReclaimNoDestination(v) ==
    /\ pcMain = "reclaimRun"
    /\ v \in pending
    /\ veh[v].flag
    /\ \E r \in tripRanges :
         AccessibleNodesWithinRange(veh[v].destination, r[1], r[2]) = {}
    /\ ReclaimNext(v)
    /\ UNCHANGED <<veh, cells, regVars>>

\* a recycling that takes the vehicle out of the completed counter again
ReclaimRecycleUncounts(v) ==
    /\ pcMain = "reclaimRun"
    /\ v \in pending
    /\ veh[v].flag
    /\ \E r \in tripRanges :
         \E newD \in AccessibleNodesWithinRange(veh[v].destination, r[1], r[2]) :
           LET newO == veh[v].destination IN
           /\ veh' = [veh EXCEPT ![v] = BufferedVehicle(veh[v].velocity,
                                           veh[v].acceleration, TRUE, newO, newD, t)]
           /\ cells' = BufferLoad(cells, newO, v)
    /\ waitingVehicles' = waitingVehicles \cup {v}
    /\ numVehiclesWaiting' = numVehiclesWaiting + 1
    /\ completedVehicles' = completedVehicles \ {v}
    /\ numVehicleCompleted' = numVehicleCompleted - 1
    /\ ReclaimNext(v)
    /\ UNCHANGED <<activeVehicles, numVehicleGenerated, numVehiclesActive>>

\* a closed vehicle: a new vehicle with the same id is buffered at the old
\* destination and put in waiting, the old one deleted from completed
ReclaimRecycle(v) ==
    /\ pcMain = "reclaimRun"
    /\ v \in pending
    /\ veh[v].flag
    /\ \E r \in tripRanges :
         \E newD \in AccessibleNodesWithinRange(veh[v].destination, r[1], r[2]) :
           LET newO == veh[v].destination IN
           /\ veh' = [veh EXCEPT ![v] = BufferedVehicle(veh[v].velocity,
                                           veh[v].acceleration, TRUE, newO, newD, t)]
           /\ cells' = BufferLoad(cells, newO, v)
    /\ waitingVehicles' = waitingVehicles \cup {v}
    /\ numVehiclesWaiting' = numVehiclesWaiting + 1
    /\ completedVehicles' = completedVehicles \ {v}
    /\ ReclaimNext(v)
    /\ UNCHANGED <<activeVehicles, numVehicleGenerated, numVehiclesActive,
                   numVehicleCompleted>>

\* ------------------------------------------------------ the worker pools
\* vehiclesPerThread and extraVehicles: the size of the slice of worker w
\* (w = 1 is the goroutine i = 0) when n vehicles are shared out
SliceSize(n, w) ==
    LET nw == Min(NumWorkers, n)
        per == n \div nw
        extra == n % nw
    IN  IF w - 1 < nw THEN per + (IF w - 1 < extra THEN 1 ELSE 0) ELSE 0

\* end of the loop that starts the goroutines: the index after the slice of
\* goroutine i, nw being the number of goroutines started
RECURSIVE SliceEnd(_, _, _)
SliceEnd(n, nw, i) ==
    (IF i = 0 THEN 0 ELSE SliceEnd(n, nw, i - 1))
      + (n \div nw) + (IF i < n % nw THEN 1 ELSE 0)

\* the indices j of vehicles[j] that goroutine i of numWorkers runs over
VehicleSlice(n, numWorkers, i) ==
    LET nw == Min(numWorkers, n)
        start == IF i = 0 THEN 0 ELSE SliceEnd(n, nw, i - 1)
    IN  {j \in start .. SliceEnd(n, nw, i) - 1 : j < n}

\* the goroutines started for the n vehicles of a phase
StartedWorkers(n) ==
    [w \in Workers |-> [IdleWorker EXCEPT !.quota = IF slices THEN SliceSize(n, w) ELSE 0]]

\* worker w may take its next vehicle: the next index of its slice, or the
\* next receive from the vehicle channel
CanTake(w) ==
    /\ workers[w].pc = "idle"
    /\ pending # {}
    /\ slices => workers[w].quota > 0

Taken(w, v, pc) ==
    [workers[w] EXCEPT !.pc = pc, !.v = v, !.i = 0, !.gap = 0, !.total = 0,
                       !.quota = IF slices THEN @ - 1 ELSE 0]

Released(w) == [workers[w] EXCEPT !.pc = "idle", !.v = 0, !.i = 0, !.gap = 0, !.total = 0]

AllJoined == pending = {} /\ \A w \in Workers : workers[w].pc = "idle"

\* --------------------------------------------------------------- promote
StartPromote ==
    /\ pcMain = "promote"
    /\ buf0' = [c \in Cells |-> cells[c].buffer]
    /\ IF waitingVehicles = {}
       THEN /\ pcMain' = "move"
            /\ order' = Append(order, "promote")
            /\ UNCHANGED poolVars
       ELSE /\ pcMain' = "promoteRun"
            /\ pending' = waitingVehicles
            /\ workers' = StartedWorkers(Cardinality(waitingVehicles))
            /\ chan' = {}
            /\ UNCHANGED order
    /\ UNCHANGED <<t, cfgVars, veh, cells, lightVars, regVars, rejected, promoted, loadFailed, retried, dropped,
                   moveCalls>>

\* UpdateActiveState, first read: originCell.Occupation()
UpdateActiveStateOccupation(w, v) ==
    /\ pcMain = "promoteRun"
    /\ CanTake(w)
    /\ v \in pending
    /\ pending' = pending \ {v}
    /\ workers' = [workers EXCEPT ![w] =
                     [Taken(w, v, "uas_buffer") EXCEPT !.total = cells[veh[v].origin].occupation]]
    /\ UNCHANGED <<t, pcMain, order, cfgVars, veh, cells, lightVars, regVars, chan, ghostVars>>

\* an UpdateActiveState that does not count the vehicles ahead in the buffer
ScanBufferAlone(total, buf, k, v, cap) ==
    FirstIndex(buf, v) # 0 /\ total + Occupy(v) <= cap

\* UpdateActiveState, the loop over originCell.ListBuffer()
RECURSIVE ScanBuffer(_, _, _, _, _)
ScanBuffer(total, buf, k, v, cap) ==
    IF k > Len(buf)
    THEN FALSE
    ELSE IF total + Occupy(buf[k]) > cap
         THEN FALSE
         ELSE IF buf[k] = v
              THEN TRUE
              ELSE ScanBuffer(total + Occupy(buf[k]), buf, k + 1, v, cap)

\* UpdateActiveState, second read: the buffer snapshot and the decision
UpdateActiveStateBuffer(w) ==
    /\ pcMain = "promoteRun"
    /\ workers[w].pc = "uas_buffer"
    /\ LET v == workers[w].v
           o == veh[v].origin
           ok == ScanBuffer(workers[w].total, cells[o].buffer, 1, v, Capacity(o))
       IN  /\ veh' = [veh EXCEPT ![v].activiate = ok]
           /\ rejected' = IF ok THEN rejected ELSE rejected \cup {v}
           /\ IF ok /\ ~ slices
              THEN workers' = [workers EXCEPT ![w].pc = "si_bunload"] /\ UNCHANGED chan
              ELSE /\ workers' = [workers EXCEPT ![w] = Released(w)]
                   /\ chan' = IF ok THEN chan \cup {v} ELSE chan
    /\ UNCHANGED <<t, pcMain, order, cfgVars, cells, lightVars, regVars, pending,
                   buf0, promoted, loadFailed, retried, dropped, moveCalls>>

\* Vehicle.accelerate
Accelerate(r) == [r EXCEPT !.velocity = Min(r.velocity + r.acceleration, MaxSpeed(r.pos))]

\* SystemIn, first half: cell.BufferUnload(v)
SystemInBufferUnload(w) ==
    /\ workers[w].pc = "si_bunload"
    /\ veh[workers[w].v].state = 3
    /\ veh[workers[w].v].activiate
    /\ cells' = BufferUnload(cells, veh[workers[w].v].origin, workers[w].v)
    /\ workers' = [workers EXCEPT ![w].pc = "si_load"]
    /\ UNCHANGED <<t, pcMain, order, cfgVars, veh, lightVars, regVars, pending, chan, ghostVars>>

\* the vehicle after SystemIn: pos, the origin dropped from the path, state 4
SystemInVehicle(r) ==
    [r EXCEPT !.pos = r.origin, !.residualPath = Tail(r.residualPath), !.state = 4]

\* SystemIn, second half: cell.Load(v), whose result is dropped.  The move
\* worker of the slice scheduler goes on into Move (state is now 4).
SystemInLoad(w) ==
    /\ workers[w].pc = "si_load"
    /\ LET v == workers[w].v IN
       /\ cells' = Load(cells, veh[v].origin, v)
       /\ promoted' = promoted \cup {v}
       /\ IF slices
          THEN /\ veh' = [veh EXCEPT ![v] = Accelerate(SystemInVehicle(veh[v]))]
               /\ workers' = [workers EXCEPT ![w].pc = "mv_scan"]
               /\ moveCalls' = [moveCalls EXCEPT ![v] = @ + 1]
               /\ UNCHANGED chan
          ELSE /\ veh' = [veh EXCEPT ![v] = SystemInVehicle(veh[v])]
               /\ workers' = [workers EXCEPT ![w] = Released(w)]
               /\ chan' = chan \cup {v}
               /\ UNCHANGED moveCalls
    /\ UNCHANGED <<t, pcMain, order, cfgVars, lightVars, regVars, pending,
                   buf0, rejected, loadFailed, retried, dropped>>

\* wg.Wait of updateVehicleActiveStatus and the loop over the activated
JoinPromote ==
    /\ pcMain = "promoteRun"
    /\ AllJoined
    /\ waitingVehicles' = waitingVehicles \ chan
    /\ numVehiclesWaiting' = numVehiclesWaiting - Cardinality(chan)
    /\ activeVehicles' = activeVehicles \cup chan
    /\ numVehiclesActive' = numVehiclesActive + Cardinality(chan)
    /\ chan' = {}
    /\ workers' = [w \in Workers |-> IdleWorker]
    /\ pcMain' = "move"
    /\ order' = Append(order, "promote")
    /\ UNCHANGED <<t, cfgVars, veh, cells, lightVars, completedVehicles,
                   numVehicleGenerated, numVehicleCompleted, pending, ghostVars>>

\* ------------------------------------------------------------------ move
StartMove ==
    /\ pcMain = "move"
    /\ IF activeVehicles = {}
       THEN /\ pcMain' = "agg"
            /\ order' = Append(order, "move")
            /\ UNCHANGED poolVars
       ELSE /\ pcMain' = "moveRun"
            /\ pending' = activeVehicles
            /\ workers' = StartedWorkers(Cardinality(activeVehicles))
            /\ chan' = {}
            /\ UNCHANGED order
    /\ UNCHANGED <<t, cfgVars, veh, cells, lightVars, regVars, ghostVars>>

\* the move worker of the slice scheduler finds its vehicle in state 3:
\* SystemIn, first half (cell.BufferUnload)
TakeSystemIn(w, v) ==
    /\ pcMain = "moveRun"
    /\ slices
    /\ CanTake(w)
    /\ v \in pending
    /\ veh[v].state = 3
    /\ veh[v].activiate
    /\ pending' = pending \ {v}
    /\ cells' = BufferUnload(cells, veh[v].origin, v)
    /\ workers' = [workers EXCEPT ![w] = Taken(w, v, "si_load")]
    /\ UNCHANGED <<t, pcMain, order, cfgVars, veh, lightVars, regVars, chan, ghostVars>>

\* a worker that calls Move on a vehicle and leaves it to be taken again
TakeMoveAgain(w, v) ==
    /\ pcMain = "moveRun"
    /\ CanTake(w)
    /\ v \in pending
    /\ veh[v].state = 4
    /\ moveCalls[v] < 2
    /\ pending' = IF moveCalls[v] = 0 THEN pending ELSE pending \ {v}
    /\ veh' = [veh EXCEPT ![v] = Accelerate(veh[v])]
    /\ workers' = [workers EXCEPT ![w] =
                     [Taken(w, v, "mv_scan") EXCEPT !.quota =
                        IF moveCalls[v] = 0 THEN workers[w].quota ELSE @]]
    /\ moveCalls' = [moveCalls EXCEPT ![v] = @ + 1]
    /\ UNCHANGED <<t, pcMain, order, cfgVars, cells, lightVars, regVars, chan,
                   buf0, rejected, promoted, loadFailed, retried, dropped>>

\* Move on a vehicle in state 4: the first accelerate of the loop
TakeMove(w, v) ==
    /\ pcMain = "moveRun"
    /\ CanTake(w)
    /\ v \in pending
    /\ veh[v].state = 4
    /\ pending' = pending \ {v}
    /\ veh' = [veh EXCEPT ![v] = Accelerate(veh[v])]
    /\ workers' = [workers EXCEPT ![w] = Taken(w, v, "mv_scan")]
    /\ moveCalls' = [moveCalls EXCEPT ![v] = @ + 1]
    /\ UNCHANGED <<t, pcMain, order, cfgVars, cells, lightVars, regVars, chan,
                   buf0, rejected, promoted, loadFailed, retried, dropped>>

\* calculateGap: the draw against passProbability at a cell of in-degree > 1
PassOutcomes(c) == IF InDegree(c) > 1 THEN {TRUE, FALSE} ELSE {TRUE}

\* Vehicle.decelerate, given the gap
Decelerate(vel, gap) == Min(vel, gap)

\* Vehicle.randomSlowing, given the draw
RandomSlowing(vel, slow) == IF slow THEN Max(vel - 1, 0) ELSE vel

\* Move after calculateGap returned gap: decelerate, randomSlowing, and the
\* return when the velocity is 0, else the clamp to the residual path
AfterGap(w, gap) ==
    LET v == workers[w].v IN
    \E slow \in slowDraws :
      LET vel == RandomSlowing(Decelerate(veh[v].velocity, gap), slow) IN
      IF vel = 0
      THEN /\ veh' = [veh EXCEPT ![v].velocity = 0]
           /\ workers' = [workers EXCEPT ![w] = Released(w)]
      ELSE /\ veh' = [veh EXCEPT ![v].velocity = Min(vel, Len(veh[v].residualPath))]
           /\ workers' = [workers EXCEPT ![w].pc = "mv_commit", ![w].i = 0, ![w].gap = 0]

\* calculateGap: one iteration of its loop, the Loadable read of cell i
MoveScan(w) ==
    /\ workers[w].pc = "mv_scan"
    /\ LET v == workers[w].v
           i == workers[w].i
           gap == workers[w].gap
           maxCheck == Min(veh[v].velocity, Len(veh[v].residualPath))
       IN  IF i >= maxCheck
           THEN AfterGap(w, gap)
           ELSE LET c == veh[v].residualPath[i + 1] IN
                IF ~ Loadable(cells, lightPhase, c, v)
                THEN AfterGap(w, gap)
                ELSE \E pass \in PassOutcomes(c) :
                       IF ~ pass
                       THEN AfterGap(w, gap)
                       ELSE IF i + 1 >= maxCheck
                            THEN AfterGap(w, gap + 1)
                            ELSE /\ workers' = [workers EXCEPT ![w].i = i + 1,
                                                               ![w].gap = gap + 1]
                                 /\ UNCHANGED veh
    /\ UNCHANGED <<t, pcMain, order, cfgVars, cells, lightVars, regVars, pending, chan, ghostVars>>

\* the target of the commit: residualPath[velocity - 1]
Target(r) == r.residualPath[r.velocity]

\* a commit that waits for its target instead of running the rule again
MoveCommitWaits(w) ==
    /\ workers[w].pc = "mv_commit"
    /\ Loadable(cells, lightPhase, Target(veh[workers[w].v]), workers[w].v)
    /\ workers' = [workers EXCEPT ![w].pc = "mv_unload"]
    /\ UNCHANGED <<t, pcMain, order, cfgVars, veh, cells, lightVars, regVars, pending, chan,
                   ghostVars>>

\* Move: targetCell.Loadable(v) before the commit; continue when it is false
MoveCommit(w) ==
    /\ workers[w].pc = "mv_commit"
    /\ LET v == workers[w].v IN
       IF Loadable(cells, lightPhase, Target(veh[v]), v)
       THEN /\ workers' = [workers EXCEPT ![w].pc = "mv_unload"]
            /\ UNCHANGED <<veh, retried>>
       ELSE /\ workers' = [workers EXCEPT ![w].pc = "mv_scan", ![w].i = 0, ![w].gap = 0]
            /\ veh' = [veh EXCEPT ![v] = Accelerate(veh[v])]
            /\ retried' = retried \cup {v}
    /\ UNCHANGED <<t, pcMain, order, cfgVars, cells, lightVars, regVars, pending, chan,
                   buf0, rejected, promoted, loadFailed, dropped, moveCalls>>

\* a commit that loads the target without unloading the current cell
MoveUnloadSkipped(w) ==
    /\ workers[w].pc = "mv_unload"
    /\ workers' = [workers EXCEPT ![w].pc = "mv_load"]
    /\ UNCHANGED <<t, pcMain, order, cfgVars, veh, cells, lightVars, regVars, pending,
                   chan, ghostVars>>

\* Move: currentCell.Unload(v)
MoveUnload(w) ==
    /\ workers[w].pc = "mv_unload"
    /\ cells' = Unload(cells, veh[workers[w].v].pos, workers[w].v)
    /\ workers' = [workers EXCEPT ![w].pc = "mv_load"]
    /\ UNCHANGED <<t, pcMain, order, cfgVars, veh, lightVars, regVars, pending, chan, ghostVars>>

\* the vehicle after the commit: pos and the residual path
MovedVehicle(r) ==
    [r EXCEPT !.pos = Target(r),
              !.residualPath = SubSeq(r.residualPath, r.velocity + 1, Len(r.residualPath))]

\* the vehicle that reached its destination: outTime and state 5
CompletedVehicle(r, time) == [r EXCEPT !.outTime = time, !.state = 5]

\* Move: targetCell.Load(v), whose result is dropped, and the rest of the
\* commit.  At the destination the vehicle of the slice scheduler is set to
\* state 5 here; the one of the pool calls systemOut.
MoveLoad(w) ==
    /\ workers[w].pc = "mv_load"
    /\ LET v == workers[w].v
           moved == MovedVehicle(veh[v])
       IN  /\ cells' = Load(cells, Target(veh[v]), v)
           /\ loadFailed' = IF LoadAccepts(cells, Target(veh[v]), v)
                            THEN loadFailed ELSE loadFailed \cup {v}
           /\ IF moved.residualPath # <<>>
              THEN /\ veh' = [veh EXCEPT ![v] = moved]
                   /\ workers' = [workers EXCEPT ![w] = Released(w)]
                   /\ UNCHANGED chan
              ELSE IF slices
                   THEN /\ veh' = [veh EXCEPT ![v] = CompletedVehicle(moved, t)]
                        /\ workers' = [workers EXCEPT ![w] = Released(w)]
                        /\ chan' = chan \cup {v}
                   ELSE /\ veh' = [veh EXCEPT ![v] = moved]
                        /\ workers' = [workers EXCEPT ![w].pc = "mv_sysout"]
                        /\ UNCHANGED chan
    /\ UNCHANGED <<t, pcMain, order, cfgVars, lightVars, regVars, pending,
                   buf0, rejected, promoted, retried, dropped, moveCalls>>

\* systemOut called by Move at the destination: cell.Unload, outTime, state 5
MoveSystemOut(w) ==
    /\ workers[w].pc = "mv_sysout"
    /\ LET v == workers[w].v IN
       /\ veh[v].state = 4
       /\ cells' = Unload(cells, veh[v].pos, v)
       /\ veh' = [veh EXCEPT ![v] = CompletedVehicle(veh[v], t)]
       /\ chan' = chan \cup {v}
    /\ workers' = [workers EXCEPT ![w] = Released(w)]
    /\ UNCHANGED <<t, pcMain, order, cfgVars, lightVars, regVars, pending, ghostVars>>

\* SystemOut on every vehicle of S, all of them in state 5: cell.Unload
RECURSIVE SystemOutAll(_, _)
SystemOutAll(cs, S) ==
    IF S = {}
    THEN cs
    ELSE LET v == CHOOSE x \in S : TRUE
         IN  SystemOutAll(Unload(cs, veh[v].pos, v), S \ {v})

\* a drain that only moves the vehicles between the registry sets
DrainWithoutSystemOut(cs, S) == cs

\* what the drain of completedVehicleChan does to the cells
DrainCells(cs, S) == IF slices THEN SystemOutAll(cs, S) ELSE cs

\* The clock and the cumulative counter grow without bound and no guard of
\* the program reads them: an endless run keeps them modulo lastTick, which
\* makes its state space finite and changes none of its steps.
Wrap(n) == IF endless THEN n % lastTick ELSE n

\* a drain that leaves the completed vehicles in the active set
JoinMoveKeepsActive ==
    /\ pcMain = "moveRun"
    /\ AllJoined
    /\ cells' = DrainCells(cells, chan)
    /\ numVehiclesActive' = numVehiclesActive - Cardinality(chan)
    /\ completedVehicles' = completedVehicles \cup chan
    /\ numVehicleCompleted' = Wrap(numVehicleCompleted + Cardinality(chan))
    /\ chan' = {}
    /\ workers' = [w \in Workers |-> IdleWorker]
    /\ pcMain' = "agg"
    /\ order' = Append(order, "move")
    /\ UNCHANGED <<t, cfgVars, veh, lightVars, waitingVehicles, activeVehicles,
                   numVehicleGenerated, numVehiclesWaiting, pending, ghostVars>>

\* wg.Wait of updateVehiclePosition and the drain of completedVehicleChan
JoinMove ==
    /\ pcMain = "moveRun"
    /\ AllJoined
    /\ cells' = DrainCells(cells, chan)
    /\ activeVehicles' = activeVehicles \ chan
    /\ numVehiclesActive' = numVehiclesActive - Cardinality(chan)
    /\ completedVehicles' = completedVehicles \cup chan
    /\ numVehicleCompleted' = Wrap(numVehicleCompleted + Cardinality(chan))
    /\ chan' = {}
    /\ workers' = [w \in Workers |-> IdleWorker]
    /\ pcMain' = "agg"
    /\ order' = Append(order, "move")
    /\ UNCHANGED <<t, cfgVars, veh, lightVars, waitingVehicles, numVehicleGenerated,
                   numVehiclesWaiting, pending, ghostVars>>

\* ------------------------------------------------------------- aggregate
\* sysState.Update and RecordData; the loop goes on to the next timeStep
Aggregate ==
    /\ pcMain = "agg"
    /\ t' = Wrap(t + 1)
    /\ pcMain' = IF endless \/ t + 1 < lastTick THEN "gen" ELSE "done"
    /\ order' = <<>>
    /\ buf0' = [c \in Cells |-> <<>>]
    /\ rejected' = {}
    /\ promoted' = {}
    /\ loadFailed' = {}
    /\ retried' = {}
    /\ moveCalls' = [v \in VehSlots |-> 0]
    /\ UNCHANGED <<cfgVars, veh, cells, lightVars, regVars, poolVars, dropped>>

\* GetVehiclesOnRoad: the vehicles found in the containers of the cells
GetVehiclesOnRoad(cs) == UNION {cs[c].container : c \in Cells}

\* totalSpeed += float64(vehicle.Velocity()) over the vehicles of S
RECURSIVE TotalSpeed(_)
TotalSpeed(S) ==
    IF S = {}
    THEN 0
    ELSE LET v == CHOOSE x \in S : TRUE IN veh[v].velocity + TotalSpeed(S \ {v})

\* GetAverageSpeed_Density: totalSpeed / float64(len(vehiclesOnRaod)), the
\* float64 quotient kept as numerator and denominator; 0.0 / 0.0 is NaN
GetAverageSpeed(S) ==
    [nan |-> Cardinality(S) = 0 /\ TotalSpeed(S) = 0,
     num |-> TotalSpeed(S),
     den |-> Cardinality(S)]

\* ------------------------------------------------------------- the specs
Driver ==
    \/ InitFixedVehicle
    \/ EndInitFixedVehicle
    \/ GenerateScheduleVehicle
    \/ EndGenerate
    \/ CycleLights
    \/ StartReclaim
    \/ StartPromote
    \/ JoinPromote
    \/ StartMove
    \/ JoinMove
    \/ Aggregate

\* the loop body of checkCompletedVehicle, one completed vehicle at a time
ReclaimSteps ==
    \/ \E v \in VehSlots : ReclaimOpen(v)
    \/ \E v \in VehSlots : ReclaimNoDestination(v)
    \/ \E v \in VehSlots : ReclaimRecycle(v)

MoveSteps ==
    \/ \E w \in Workers, v \in VehSlots : TakeMove(w, v)
    \/ \E w \in Workers : MoveScan(w)
    \/ \E w \in Workers : MoveCommit(w)
    \/ \E w \in Workers : MoveUnload(w)
    \/ \E w \in Workers : MoveLoad(w)

Next ==
    \/ Driver
    \/ ReclaimSteps
    \/ MoveSteps
    \/ \E w \in Workers, v \in VehSlots : UpdateActiveStateOccupation(w, v)
    \/ \E w \in Workers : UpdateActiveStateBuffer(w)
    \/ \E w \in Workers, v \in VehSlots : TakeSystemIn(w, v)
    \/ \E w \in Workers : SystemInLoad(w)

NextPool ==
    \/ Driver
    \/ ReclaimSteps
    \/ MoveSteps
    \/ \E w \in Workers, v \in VehSlots : UpdateActiveStateOccupation(w, v)
    \/ \E w \in Workers : UpdateActiveStateBuffer(w)
    \/ \E w \in Workers : SystemInBufferUnload(w)
    \/ \E w \in Workers : SystemInLoad(w)
    \/ \E w \in Workers : MoveSystemOut(w)

Spec == Init /\ [][Next]_vars

SpecPool == InitPool /\ [][NextPool]_vars

\* The endless run of the slice scheduler on the saturated ring: all its
\* vehicles are closed and created by InitFixedVehicle, every trip range has
\* a destination.
NextLive ==
    \/ InitFixedVehicle
    \/ EndInitFixedVehicle
    \/ EndGenerate
    \/ CycleLights
    \/ StartReclaim
    \/ \E v \in VehSlots : ReclaimRecycle(v)
    \/ StartPromote
    \/ \E w \in Workers, v \in VehSlots : UpdateActiveStateOccupation(w, v)
    \/ \E w \in Workers : UpdateActiveStateBuffer(w)
    \/ JoinPromote
    \/ StartMove
    \/ \E w \in Workers, v \in VehSlots : TakeSystemIn(w, v)
    \/ \E w \in Workers : SystemInLoad(w)
    \/ MoveSteps
    \/ JoinMove
    \/ Aggregate

\* The main loop never stops between two steps and every goroutine it starts
\* runs to its end: weak fairness of the step relation.
SpecLive == InitLive /\ [][NextLive]_vars /\ WF_vars(NextLive)

\* Both schedulers under fair scheduling: the pool as Spec has it, with the
\* vehicles of Spec.
InitPoolFair ==
    /\ InitCommon
    /\ NoBench
    /\ capacity \in 1 .. MaxCapacity
    /\ slices = FALSE
    /\ genLimit = MaxVeh
    /\ closedLimit = NumClosed
    /\ origins = Cells
    /\ tripRanges = TripDistanceRange
    /\ slowDraws = SlowOutcomes
    /\ lastTick = MaxTick
    /\ endless = FALSE

InitFair == Init \/ InitPoolFair

NextFair ==
    \/ Next
    \/ \E w \in Workers : SystemInBufferUnload(w)
    \/ \E w \in Workers : MoveSystemOut(w)

\* The main goroutine and every goroutine it starts keep running: a step
\* that can be taken is taken.
SpecFair == InitFair /\ [][NextFair]_vars /\ WF_vars(NextFair)

\* The run of Spec with the goroutines of GenerateScheduleVehicle that fail.
NextDemand ==
    \/ Next
    \/ GenerateNoDestination
    \/ GenerateNoPath

SpecDemand == Init /\ [][NextDemand]_vars

\* ------------------------------------------- the traffic light on its own
\* no simulation runs beside the object
InitIdle ==
    /\ InitCommon
    /\ capacity = 1
    /\ slices = TRUE
    /\ genLimit = 0
    /\ closedLimit = 0
    /\ origins = {}
    /\ tripRanges = {}
    /\ slowDraws = {}
    /\ lastTick = 0
    /\ endless = FALSE

InitLight ==
    /\ InitIdle
    /\ NoCar
    /\ writer = NewWriter(1, 0)
    /\ wp = NewWorkerPool
    /\ light \in ValidLights
    /\ lightRun = NewRun(0)

\* light.Cycle()
Cycle ==
    /\ light' = Cycled(light)
    /\ lightRun' =
         LET green == IF Cycled(light).phase THEN 1 ELSE 0 IN
         IF lightRun.calls >= light.interval
         THEN [c0 |-> light.count, calls |-> 1, greens |-> green]
         ELSE [lightRun EXCEPT !.calls = @ + 1, !.greens = @ + green]
    /\ UNCHANGED <<simVars, carVars>>

\* light.SetCount(n), which panics outside 1 .. interval
SetCount(n) ==
    /\ ~ (n <= 0 \/ n > light.interval)
    /\ light' = [light EXCEPT !.count = n]
    /\ lightRun' = NewRun(n)
    /\ UNCHANGED <<simVars, carVars>>

\* light.ChangeInterval(mul), which panics on an empty period or window
ChangeInterval(mul) ==
    /\ ~ (Scaled(light.interval, mul) <= 0
          \/ Scaled(light.hi, mul) <= Scaled(light.lo, mul))
    /\ Scaled(light.interval, mul) <= MaxPeriod
    /\ light' = IntervalChanged(light, mul)
    /\ lightRun' = NewRun(IntervalChanged(light, mul).count)
    /\ UNCHANGED <<simVars, carVars>>

NextLight ==
    \/ Cycle
    \/ \E n \in 0 .. MaxPeriod : SetCount(n)
    \/ \E mul \in Multipliers : ChangeInterval(mul)

SpecLight == InitLight /\ [][NextLight]_vars

\* ----------------------------------------------- the data writes of main
InitWriter ==
    /\ InitIdle
    /\ NoCar
    /\ light = NewTrafficLightCell(LightInterval, GreenLo, GreenHi)
    /\ lightRun = NewRun(0)
    /\ \E every \in WriteIntervals, steps \in 1 .. MaxWriteTicks :
         writer = NewWriter(every, steps)
    /\ wp = NewWorkerPool

\* what the simulation and the single objects are, which the writes leave alone
nonWriterVars == <<t, pcMain, order, benchVars, slices, genLimit, closedLimit, origins,
                   tripRanges, slowDraws, lastTick, endless, capacity, veh, cells,
                   lightVars, regVars, poolVars, ghostVars, wp>>

\* pool.Submit(job): the send on pool.jobs, which holds 2 * workers jobs
Submitted(wr, kind) ==
    IF wr.closed THEN wr ELSE [wr EXCEPT !.jobs = Append(@, kind)]

\* writeDataAsync: the select on dataWriteChan; the write is submitted with
\* the token, or skipped with a warning
WriteDataAsync(wr) ==
    IF ~ wr.token
    THEN Submitted([wr EXCEPT !.token = TRUE], "guarded")
    ELSE [wr EXCEPT !.skipped = @ + 1]

\* one iteration of the main loop, which ends with the write of the interval
MainLoopStep ==
    /\ writer.pc = "loop"
    /\ writer.timeStep < writer.simDaySteps
    /\ Len(writer.jobs) < 2 * NumWorkers
    /\ writer' = [(IF writer.timeStep % writer.every = 0
                   THEN WriteDataAsync(writer) ELSE writer)
                  EXCEPT !.timeStep = @ + 1]
    /\ UNCHANGED nonWriterVars

\* after the loop: pool.Submit of the last write, without the select
FinalWrite ==
    /\ writer.pc = "loop"
    /\ writer.timeStep = writer.simDaySteps
    /\ Len(writer.jobs) < 2 * NumWorkers
    /\ writer' = [Submitted(writer, "final") EXCEPT !.pc = "stop"]
    /\ UNCHANGED nonWriterVars

\* the deferred pool.Stop(): close(p.jobs), then p.wg.Wait()
PoolStop ==
    /\ writer.pc = "stop"
    /\ writer' = [writer EXCEPT !.closed = TRUE, !.pc = "wait"]
    /\ UNCHANGED nonWriterVars

\* p.wg.Wait() returns: the queue is drained and every worker has left
PoolStopped ==
    /\ writer.pc = "wait"
    /\ writer.jobs = <<>>
    /\ \A w \in PoolWorkers : writer.busy[w].kind = "none"
    /\ writer' = [writer EXCEPT !.pc = "done"]
    /\ UNCHANGED nonWriterVars

\* a worker of the pool receives the next job
PoolTake(w) ==
    /\ writer.busy[w].kind = "none"
    /\ writer.jobs # <<>>
    /\ writer' = [writer EXCEPT !.jobs = Tail(@),
                                !.busy[w] = [kind |-> Head(writer.jobs),
                                             left |-> JobSteps(Head(writer.jobs))]]
    /\ UNCHANGED nonWriterVars

\* a worker runs the next statement of its job: a CSV write, or the receive
\* from dataWriteChan that ends the guarded job
PoolRun(w) ==
    /\ writer.busy[w].kind # "none"
    /\ writer' =
         IF writer.busy[w].left > 1
         THEN [writer EXCEPT !.busy[w].left = @ - 1]
         ELSE [writer EXCEPT !.busy[w] = IdlePoolWorker,
                             !.token = IF writer.busy[w].kind = "guarded" THEN FALSE ELSE @]
    /\ UNCHANGED nonWriterVars

NextWriter ==
    \/ MainLoopStep
    \/ FinalWrite
    \/ PoolStop
    \/ PoolStopped
    \/ \E w \in PoolWorkers : PoolTake(w)
    \/ \E w \in PoolWorkers : PoolRun(w)

SpecWriter == InitWriter /\ [][NextWriter]_vars

\* ------------------------------------------------------ a cell on its own
\* The cells built by NewCommonCell with a capacity of 1 .. MaxCapacity
\* vehicles, and callers that Load and Unload any vehicle in any order.
InitCell ==
    /\ InitCommon
    /\ NoBench
    /\ capacity \in 1 .. MaxCapacity
    /\ slices = TRUE
    /\ genLimit = 0
    /\ closedLimit = 0
    /\ origins = {}
    /\ tripRanges = {}
    /\ slowDraws = {}
    /\ lastTick = 0
    /\ endless = FALSE

\* cell.Load(vehicle)
CellLoad(c, v) ==
    /\ cells' = Load(cells, c, v)
    /\ UNCHANGED <<t, pcMain, order, cfgVars, veh, lightVars, regVars, poolVars, ghostVars>>

\* cell.Unload(vehicle)
CellUnload(c, v) ==
    /\ cells' = Unload(cells, c, v)
    /\ UNCHANGED <<t, pcMain, order, cfgVars, veh, lightVars, regVars, poolVars, ghostVars>>

NextCell ==
    \/ \E c \in Cells, v \in VehSlots : CellLoad(c, v)
    \/ \E c \in Cells, v \in VehSlots : CellUnload(c, v)

SpecCell == InitCell /\ [][NextCell]_vars

\* ------------------------------------------- the worker pool of main.go
\* WorkerPool with a context: Start, Submit and Stop, called by goroutines
\* in any order; each atomic operation and each select is one step.
InitWorkerPool ==
    /\ InitIdle
    /\ NoCar
    /\ light = NewTrafficLightCell(LightInterval, GreenLo, GreenHi)
    /\ lightRun = NewRun(0)
    /\ writer = NewWriter(1, 0)
    /\ wp = NewWorkerPool

\* what the pool leaves alone
nonPoolVars == <<t, pcMain, order, benchVars, writer, slices, genLimit, closedLimit,
                 origins, tripRanges, slowDraws, lastTick, endless, capacity, veh, cells,
                 lightVars, regVars, poolVars, ghostVars>>

\* Submit, p.closed.Load(): false is returned when the pool is closed
SubmitLoad(g) ==
    /\ wp.caller[g].pc = "idle"
    /\ wp.submits < MaxSubmits
    /\ ~ wp.panicked
    /\ LET j == wp.submits + 1 IN
       wp' = IF wp.closed
             THEN [wp EXCEPT !.submits = j, !.late = @ \cup {j}, !.refused = @ \cup {j}]
             ELSE [wp EXCEPT !.submits = j, !.caller[g] = [pc |-> "select", job |-> j]]
    /\ UNCHANGED nonPoolVars

\* Submit, the select: the send on p.jobs (a panic when the channel is
\* closed, true when it has room) or the receive from p.ctx.Done() (false)
SubmitSelect(g) ==
    /\ wp.caller[g].pc = "select"
    /\ ~ wp.panicked
    /\ LET j == wp.caller[g].job
           back == [pc |-> "idle", job |-> 0]
       IN  \E case \in {"send", "done"} :
             IF case = "send"
             THEN IF wp.jobsClosed
                  THEN wp' = [wp EXCEPT !.panicked = TRUE]
                  ELSE /\ Len(wp.jobs) < 2 * Cardinality(PoolWorkers)
                       /\ wp' = [wp EXCEPT !.jobs = Append(@, j), !.accepted = @ \cup {j},
                                           !.caller[g] = back]
             ELSE /\ wp.cancelled
                  /\ wp' = [wp EXCEPT !.refused = @ \cup {j}, !.caller[g] = back]
    /\ UNCHANGED nonPoolVars

\* Stop, p.closed.Swap(true): a pool that was closed makes Stop return
StopSwap(g) ==
    /\ wp.caller[g].pc = "idle"
    /\ wp.stops < MaxStops
    /\ ~ wp.panicked
    /\ wp' = IF wp.closed
             THEN [wp EXCEPT !.stops = @ + 1, !.returned = @ + 1]
             ELSE [wp EXCEPT !.stops = @ + 1, !.closed = TRUE, !.caller[g].pc = "cancel"]
    /\ UNCHANGED nonPoolVars

\* Stop, p.cancel()
StopCancel(g) ==
    /\ wp.caller[g].pc = "cancel"
    /\ ~ wp.panicked
    /\ wp' = [wp EXCEPT !.cancelled = TRUE, !.caller[g].pc = "close"]
    /\ UNCHANGED nonPoolVars

\* Stop, close(p.jobs), which panics on a closed channel
StopClose(g) ==
    /\ wp.caller[g].pc = "close"
    /\ ~ wp.panicked
    /\ wp' = IF wp.jobsClosed
             THEN [wp EXCEPT !.panicked = TRUE]
             ELSE [wp EXCEPT !.jobsClosed = TRUE, !.closes = @ + 1, !.caller[g].pc = "wait"]
    /\ UNCHANGED nonPoolVars

\* Stop, p.wg.Wait(): every worker has returned
StopWait(g) ==
    /\ wp.caller[g].pc = "wait"
    /\ ~ wp.panicked
    /\ \A w \in PoolWorkers : wp.worker[w].pc = "exit"
    /\ wp' = [wp EXCEPT !.returned = @ + 1, !.stopped = TRUE,
                        !.caller[g] = [pc |-> "idle", job |-> 0]]
    /\ UNCHANGED nonPoolVars

\* a worker of Start in its select: it returns on p.ctx.Done() or on the
\* closed and empty channel, or it receives the next job
WorkerSelect(w) ==
    /\ wp.worker[w].pc = "select"
    /\ ~ wp.panicked
    /\ \E case \in {"done", "job"} :
         IF case = "done"
         THEN /\ wp.cancelled
              /\ wp' = [wp EXCEPT !.worker[w].pc = "exit"]
         ELSE IF wp.jobs # <<>>
              THEN wp' = [wp EXCEPT !.jobs = Tail(@),
                                    !.worker[w] = [pc |-> "job", job |-> Head(wp.jobs)]]
              ELSE /\ wp.jobsClosed
                   /\ wp' = [wp EXCEPT !.worker[w].pc = "exit"]
    /\ UNCHANGED nonPoolVars

\* a worker of Start runs the job it received: job()
WorkerJob(w) ==
    /\ wp.worker[w].pc = "job"
    /\ ~ wp.panicked
    /\ wp' = [wp EXCEPT !.ran[wp.worker[w].job] = @ + 1,
                        !.worker[w] = [pc |-> "select", job |-> 0]]
    /\ UNCHANGED nonPoolVars

NextWorkerPool ==
    \/ \E g \in Callers : SubmitLoad(g)
    \/ \E g \in Callers : SubmitSelect(g)
    \/ \E g \in Callers : StopSwap(g)
    \/ \E g \in Callers : StopCancel(g)
    \/ \E g \in Callers : StopClose(g)
    \/ \E g \in Callers : StopWait(g)
    \/ \E w \in PoolWorkers : WorkerSelect(w)
    \/ \E w \in PoolWorkers : WorkerJob(w)

SpecWorkerPool == InitWorkerPool /\ [][NextWorkerPool]_vars

\* --------------------------------------------------- the vehicle on its own
\* A ring of common cells of capacity 1.0, one of which may be a traffic
\* light, and one vehicle built by NewVehicle; the calls come in any order,
\* one goroutine at a time.
ScenarioLight == NewTrafficLightCell(4, 2, 4)

InitVehicle ==
    /\ InitIdle
    /\ writer = NewWriter(1, 0)
    /\ wp = NewWorkerPool
    /\ lightRun = NewRun(0)
    /\ \E vel \in 0 .. 1, acc \in 0 .. 1, slowing \in BOOLEAN,
          at \in {NoCell, 1}, n \in 1 .. ScenarioLight.interval, ti \in TraceIntervals,
          slow \in {NoCell, 2} :
         /\ at # NoCell => slow = NoCell
         /\ car = NewVehicle(vel, acc, slowing)
         /\ roadCfg = [lightAt |-> at, slowAt |-> slow, traceRecordInterval |-> ti,
                       velocity |-> vel, count |-> IF at = NoCell THEN 0 ELSE n]
         /\ light = IF at = NoCell
                    THEN NewTrafficLightCell(LightInterval, GreenLo, GreenHi)
                    ELSE [ScenarioLight EXCEPT !.count = n]
    /\ road = [c \in RingCells |-> NewCell]
    /\ clock = 0
    /\ trail = <<>>
    /\ setODs = 0

\* the run is followed up to its last accepted SetOD
Running == setODs < MaxSetOD

\* the main loop enters the next timeStep: every light cycles
StartTimeStep ==
    /\ Running
    /\ clock < MaxClock
    /\ clock' = clock + 1
    /\ light' = IF roadCfg.lightAt = NoCell THEN light ELSE Cycled(light)
    /\ UNCHANGED <<simVars, lightRun, car, road, roadCfg, trail, setODs>>

\* v.SetOD(g, o, d); with o = d it returns an error and changes nothing
SetOD(o, d) ==
    /\ Running
    /\ o # d
    /\ car' = [car EXCEPT !.origin = o, !.destination = d, !.state = 1]
    /\ setODs' = setODs + 1
    /\ UNCHANGED <<simVars, light, lightRun, road, roadCfg, clock, trail>>

\* v.SetPath(p); any failed check returns an error and changes nothing
SetPath(p) ==
    /\ Running
    /\ car.state = 1
    /\ Len(p) # 0
    /\ p[1] = car.origin
    /\ p[Len(p)] = car.destination
    /\ car' = [car EXCEPT !.simplePath = p, !.residualPath = p, !.state = 2]
    /\ UNCHANGED <<simVars, light, lightRun, road, roadCfg, clock, trail, setODs>>

\* v.BufferIn(time), which panics outside state 2
BufferIn ==
    /\ Running
    /\ car.state = 2
    /\ road' = BufferLoad(road, car.origin, CarId)
    /\ car' = [car EXCEPT !.inTime = clock, !.state = 3]
    /\ UNCHANGED <<simVars, light, lightRun, roadCfg, clock, trail, setODs>>

\* v.UpdateActiveState(), which panics without an origin
UpdateActiveState ==
    /\ Running
    /\ car.origin # NoCell
    /\ car' = [car EXCEPT !.activiate =
                 ScanBuffer(road[car.origin].occupation, road[car.origin].buffer,
                            1, CarId, Capacity(car.origin))]
    /\ UNCHANGED <<simVars, light, lightRun, road, roadCfg, clock, trail, setODs>>

\* v.SystemIn(), which panics outside state 3 and when not activated
SystemIn ==
    /\ Running
    /\ car.state = 3
    /\ car.activiate
    /\ road' = Load(BufferUnload(road, car.origin, CarId), car.origin, CarId)
    /\ car' = [car EXCEPT !.pos = car.origin, !.residualPath = Tail(@), !.state = 4]
    /\ UNCHANGED <<simVars, light, lightRun, roadCfg, clock, trail, setODs>>

\* a SystemOut that stamps outTime whatever the state
SystemOutVehicleRestamps(r, time) == [r EXCEPT !.outTime = time, !.state = 5]

\* SystemOut: the vehicle it leaves; in state 5 the vehicle is only unloaded
SystemOutVehicle(r, time) ==
    IF r.state = 5 THEN r ELSE [r EXCEPT !.outTime = time, !.state = 5]

\* v.SystemOut(time), which panics outside states 4 and 5
SystemOut ==
    /\ Running
    /\ car.state \in {4, 5}
    /\ road' = Unload(road, car.pos, CarId)
    /\ car' = SystemOutVehicle(car, clock)
    /\ UNCHANGED <<simVars, light, lightRun, roadCfg, clock, trail, setODs>>

\* Loadable of cell c of the ring
RoadLoadable(rd, l, c) ==
    IF c = roadCfg.lightAt
    THEN LightLoadable(l, rd[c].occupation, Capacity(c))
    ELSE rd[c].occupation + Occupy(CarId) <= Capacity(c)

\* a calculateGap that looks no further than the next cell
GapAheadOneCell(r, rd, l) ==
    LET maxCheck == Min(Min(r.velocity, Len(r.residualPath)), 1) IN
    Cardinality({k \in 1 .. maxCheck :
                   \A i \in 1 .. k : RoadLoadable(rd, l, r.residualPath[i])})

\* calculateGap: the cells ahead up to the first that is not Loadable (no
\* cell of the ring has in-degree > 1, so there is no passing draw)
GapAhead(r, rd, l) ==
    LET maxCheck == Min(r.velocity, Len(r.residualPath)) IN
    Cardinality({k \in 1 .. maxCheck :
                   \A i \in 1 .. k : RoadLoadable(rd, l, r.residualPath[i])})

\* CommonCell.MaxSpeed of cell c of the ring: the speed it was built with
RoadMaxSpeed(c) == IF c = roadCfg.slowAt THEN SlowSpeed ELSE RoadSpeed

\* an accelerate that always gains at least 1
AcceleratedAtLeastOne(r) ==
    [r EXCEPT !.velocity = Min(r.velocity + Max(r.acceleration, 1), RoadMaxSpeed(r.pos))]

\* Vehicle.accelerate on a cell of the ring
Accelerated(r) ==
    [r EXCEPT !.velocity = Min(r.velocity + r.acceleration, RoadMaxSpeed(r.pos))]

\* v.trace[c.ID()] = time: the trace maps a cell to the last time recorded
\* for it, kept as the set of its <<cell, time>> pairs
TracePut(tr, c, time) == {p \in tr : p[1] # c} \cup {<<c, time>>}

\* the keys of the trace
TracedCells(tr) == {p[1] : p \in tr}

\* a Move that records the origin from state 1 on
OriginTracedFromSetOD(r, time) ==
    IF r.state >= 1 /\ r.trace = {} /\ r.origin # NoCell
    THEN [r EXCEPT !.trace = TracePut(@, r.origin, time), !.lastTraceTime = time]
    ELSE r

\* Move: the origin is recorded in the empty trace of a vehicle in state >= 3
OriginTraced(r, time) ==
    IF r.state >= 3 /\ r.trace = {} /\ r.origin # NoCell
    THEN [r EXCEPT !.trace = TracePut(@, r.origin, time), !.lastTraceTime = time]
    ELSE r

\* Move at velocity 0: the position is recorded when the interval has passed
Stalled(r, time) ==
    IF (time - r.lastTraceTime) >= r.traceInterval /\ r.pos # NoCell
    THEN [r EXCEPT !.velocity = 0, !.trace = TracePut(@, r.pos, time),
                   !.lastTraceTime = time]
    ELSE [r EXCEPT !.velocity = 0]

\* Move at velocity vel > 0, past the Loadable check: the vehicle is on the
\* target, the trace is recorded at the destination or when the interval
\* has passed, the path is cut, and with an empty path the trip is over
Advanced(r, vel, time) ==
    LET target == r.residualPath[vel]
        final == Len(r.residualPath) = vel /\ target = r.destination
        interval == IF r.traceInterval <= 0 THEN roadCfg.traceRecordInterval
                    ELSE r.traceInterval
        record == final \/ (time - r.lastTraceTime >= interval)
        rest == SubSeq(r.residualPath, vel + 1, Len(r.residualPath))
        moved == [r EXCEPT !.velocity = vel,
                           !.pos = target,
                           !.traceInterval = IF final THEN @ ELSE interval,
                           !.trace = IF record THEN TracePut(@, target, time) ELSE @,
                           !.lastTraceTime = IF record THEN time ELSE @,
                           !.residualPath = rest]
    IN  IF rest # <<>>
        THEN moved
        ELSE [moved EXCEPT !.outTime = time, !.state = 5,
                           !.trace = TracePut(@, target, time), !.lastTraceTime = time]

\* v.Move(time), once in a timeStep for a vehicle in state 4.  With one
\* goroutine the target is Loadable whenever the gap reaches it, so the
\* loop of Move runs once.
Move(slow) ==
    LET traced == OriginTraced(car, clock) IN
    IF car.state # 4
    THEN /\ Running
         /\ car' = traced
         /\ UNCHANGED <<simVars, light, lightRun, road, roadCfg, clock, trail, setODs>>
    ELSE LET fast == Accelerated(traced)
             gap == GapAhead(fast, road, light)
             slowed == Decelerate(fast.velocity, gap)
             vel == RandomSlowing(slowed, slow)
             clamped == Min(vel, Len(car.residualPath))
         IN  /\ Running
             /\ (IF trail = <<>> THEN TRUE ELSE trail[Len(trail)].time < clock)
             /\ (slow => car.slowing)
             /\ IF vel = 0
                THEN /\ car' = Stalled(fast, clock)
                     /\ UNCHANGED road
                ELSE /\ car' = Advanced(fast, clamped, clock)
                     /\ road' = Load(Unload(road, car.pos, CarId),
                                     car.residualPath[clamped], CarId)
             /\ trail' = Append(trail, [time |-> clock, pos |-> car'.pos,
                                        velocity |-> car'.velocity,
                                        before |-> car.velocity,
                                        accelerated |-> fast.velocity,
                                        gap |-> gap,
                                        decelerated |-> slowed,
                                        slowed |-> vel])
             /\ UNCHANGED <<simVars, light, lightRun, roadCfg, clock, setODs>>

NextVehicle ==
    \/ StartTimeStep
    \/ \E od \in ODPairs : SetOD(od[1], od[2])
    \/ \E p \in RingPaths : SetPath(p)
    \/ BufferIn
    \/ UpdateActiveState
    \/ SystemIn
    \/ \E slow \in SlowOutcomes : Move(slow)
    \/ SystemOut

SpecVehicle == InitVehicle /\ [][NextVehicle]_vars

\* ------------------------------------------------------------ properties
\* the tick boundary: the move phase is joined and the completed drained
TickBoundary == pcMain = "agg"

RECURSIVE SumOccupy(_)
SumOccupy(S) ==
    IF S = {} THEN 0
    ELSE LET v == CHOOSE x \in S : TRUE IN Occupy(v) + SumOccupy(S \ {v})

\* the cells whose container holds vehicle v
Holders(v) == {c \in Cells : v \in cells[c].container}

MovePcs == {"mv_scan", "mv_commit", "mv_unload", "mv_load", "mv_sysout"}

SystemInPcs == {"si_bunload", "si_load"}

\* C1: at every tick boundary the occupation of every cell is the sum of
\* occupy over its container and is at most the capacity of the cell.
C1_OccupationIsSum ==
    TickBoundary =>
      \A c \in Cells : /\ cells[c].occupation = SumOccupy(cells[c].container)
                        /\ cells[c].occupation <= Capacity(c)

\* a tick boundary with a full cell whose vehicle got there by a Move
C1_Witness ==
    /\ TickBoundary
    /\ \E c \in Cells : \E v \in cells[c].container :
         /\ cells[c].occupation = Capacity(c)
         /\ veh[v].pos = c
         /\ veh[v].origin # c

\* C2: in every reachable state, the middle of a phase included, no cell
\* has an occupation above its capacity, whatever the workers interleave.
C2_CapacitySafety == \A c \in Cells : cells[c].occupation <= Capacity(c)

\* a worker is about to Load a target that another worker filled after the
\* Loadable check of the commit
C2_Witness ==
    \E w \in Workers :
      /\ workers[w].pc = "mv_load"
      /\ ~ LoadAccepts(cells, Target(veh[workers[w].v]), workers[w].v)
      /\ cells[Target(veh[workers[w].v])].occupation = Capacity(Target(veh[workers[w].v]))

\* C3: at every tick boundary every vehicle in state 4 is in the container
\* of exactly one cell, and that cell is its position.
C3_ActiveInOneContainer ==
    TickBoundary =>
      \A v \in VehSlots :
        veh[v].state = 4 => Holders(v) = {veh[v].pos}

\* C4: in no reachable state is one vehicle in the containers of two
\* different cells.
C4_NeverInTwoCells == \A v \in VehSlots : Cardinality(Holders(v)) <= 1

\* a vehicle that a commit of Move carried from one container to another
C4_Witness ==
    \E v \in VehSlots :
      /\ veh[v].state = 4
      /\ veh[v].pos # veh[v].origin
      /\ Holders(v) = {veh[v].pos}
      /\ v \notin loadFailed

\* C5: a vehicle that lost the race for its target cell (the target refused
\* it at the commit) ends the tick in the container of the cell that is its
\* position, never with a position whose container it is absent from.
C5_LoserKeepsItsCell ==
    TickBoundary =>
      \A v \in loadFailed : v \in cells[veh[v].pos].container

\* C6: at every tick boundary generated = waiting + active + completed.
C6_Conservation ==
    TickBoundary =>
      numVehicleGenerated = numVehiclesWaiting + numVehiclesActive + numVehicleCompleted

\* C7: at every tick boundary each counter is the size of its set.
C7_CountersAreSetSizes ==
    TickBoundary =>
      /\ numVehiclesWaiting = Cardinality(waitingVehicles)
      /\ numVehiclesActive = Cardinality(activeVehicles)
      /\ numVehicleCompleted = Cardinality(completedVehicles)

\* C8: in one tick and one origin cell, when a vehicle was rejected by
\* UpdateActiveState, no vehicle queued behind it in the buffer is promoted
\* (SystemIn) in that tick.
C8_BufferFIFO ==
    \A c \in Cells : \A i, j \in 1 .. Len(buf0[c]) :
      (i < j /\ buf0[c][i] \in rejected) => buf0[c][j] \notin promoted

\* the order of the sub-phases in the main loop
PhaseOrder == <<"generate", "lights", "reclaim", "promote", "move">>

\* the order the claim C9 gives
ClaimedPhaseOrder == <<"reclaim", "lights", "generate", "promote", "move">>

IsPrefix(s, full) == Len(s) <= Len(full) /\ s = SubSeq(full, 1, Len(s))

\* the number of sub-phases that are finished when the main loop is at pc
FinishedAt(pc) ==
    CASE pc \in {"init", "gen", "done"} -> 0
      [] pc = "lights" -> 1
      [] pc \in {"reclaim", "reclaimRun"} -> 2
      [] pc \in {"promote", "promoteRun"} -> 3
      [] pc \in {"move", "moveRun"} -> 4
      [] pc = "agg" -> 5

C10_PhaseBarrier ==
    \A w \in Workers :
      workers[w].pc \in MovePcs =>
        /\ \A u \in Workers : workers[u].pc \notin SystemInPcs
        /\ \A v \in activeVehicles : veh[v].state # 3

\* C11: every closed vehicle is in state 3, in state 4 and in state 5 again and
\* again as long as the run goes on (the re-created vehicle keeps the id, the
\* slot of veh).
C11_ClosedLoopForever ==
    \A v \in VehSlots :
      /\ (veh[v].flag ~> veh[v].state = 3)
      /\ (veh[v].flag ~> veh[v].state = 4)
      /\ (veh[v].flag ~> veh[v].state = 5)

\* the step that joins the move workers and ends VehicleProcess for the tick
EndsMovePhase == pcMain = "moveRun" /\ pcMain' = "agg"

\* the step that re-creates the closed vehicle v
Recycles(v) == veh[v].flag /\ veh[v].state = 5 /\ veh'[v].state = 3

\* C12 (as claimed): when the move phase of tick t ends, every closed vehicle
\* that reached its destination d in it is in the waiting set again, as a
\* vehicle with inTime = t and origin = d.
C12_BackInSameTick ==
    [][EndsMovePhase =>
         \A v \in chan : veh[v].flag =>
           (/\ v \in waitingVehicles'
            /\ veh'[v].state = 3
            /\ veh'[v].inTime = t
            /\ veh'[v].origin = veh[v].destination)]_vars

\* C12 (amended): a closed vehicle that reached its destination d in the move
\* phase of tick t ends the tick in the completed set, in state 5 with
\* outTime = t; the reclaim of a later tick puts a vehicle of the same id in
\* the waiting set, with inTime = that tick and origin = d.
C12_BackInLaterTick ==
    [][/\ EndsMovePhase =>
            \A v \in chan : veh[v].flag =>
              (/\ v \in completedVehicles'
               /\ v \notin waitingVehicles'
               /\ veh'[v].state = 5
               /\ veh'[v].outTime = t)
       /\ \A v \in VehSlots : Recycles(v) =>
              (/\ pcMain = "reclaimRun"
               /\ veh[v].outTime < t
               /\ veh'[v].inTime = t
               /\ veh'[v].origin = veh[v].destination
               /\ v \in waitingVehicles')]_vars

\* a closed vehicle completed in tick 0 has just been re-created in tick 1
C12_Witness ==
    \E v \in VehSlots :
      /\ pcMain \in {"reclaimRun", "promote"}
      /\ t = 1
      /\ veh[v].flag
      /\ veh[v].state = 3
      /\ veh[v].inTime = 1
      /\ v \in waitingVehicles

\* C13: the step that recycles a closed vehicle leaves generated and active
\* unchanged, takes 1 from completed and adds 1 to waiting.
C13_RecycleCounters ==
    [][\A v \in VehSlots : Recycles(v) =>
         (/\ numVehicleGenerated' = numVehicleGenerated
          /\ numVehicleCompleted' = numVehicleCompleted - 1
          /\ numVehiclesWaiting' = numVehiclesWaiting + 1
          /\ numVehiclesActive' = numVehiclesActive)]_vars

\* C14: no step lowers the generated or the completed counter, so neither is
\* lower at a tick boundary than at the boundary before.
C14_CountersMonotone ==
    [][/\ numVehicleGenerated' >= numVehicleGenerated
       /\ numVehicleCompleted' >= numVehicleCompleted]_vars

\* the second tick boundary, after a completion and a recycling
C14_Witness ==
    /\ TickBoundary
    /\ t = 1
    /\ numVehicleGenerated = MaxVeh
    /\ numVehicleCompleted >= 1
    /\ \E v \in VehSlots : veh[v].flag /\ veh[v].inTime = 1

\* the counter of the light lies in its green window (lo, hi]
InWindow(l) == l.count > l.lo /\ l.count <= l.hi

\* C16: P calls of Cycle after the counter was c0 in 1 .. P bring the counter
\* back to c0, and the phase was true after exactly hi - lo of them.
C16_CycleLaw ==
    (lightRun.calls = light.interval /\ lightRun.c0 \in 1 .. light.interval) =>
      (light.count = lightRun.c0 /\ lightRun.greens = light.hi - light.lo)

\* a full period of the longest light, two calls of it green
C16_Witness ==
    /\ light.interval = MaxPeriod
    /\ lightRun.calls = MaxPeriod
    /\ lightRun.c0 \in 2 .. MaxPeriod
    /\ light.hi - light.lo = 2
    /\ lightRun.greens = 2

\* C17: in every state of the light Loadable of an empty cell is true only
\* with the counter in (lo, hi]: the stored phase equals (lo < counter <= hi).
C17_PhaseFollowsCounter ==
    /\ LightLoadable(light, 0, 1) => InWindow(light)
    /\ light.phase = InWindow(light)

\* C18: in every state of the light, from construction on, period > 0,
\* 0 <= lo < hi <= period and 1 <= counter <= period.
C18_LightInvariants ==
    /\ light.interval > 0
    /\ 0 <= light.lo
    /\ light.lo < light.hi
    /\ light.hi <= light.interval
    /\ 1 <= light.count
    /\ light.count <= light.interval

\* C15: the state of a vehicle changes only along 1->2, 2->3, 3->4 and 4->5
\* (and from that of NewVehicle to 1): no call moves a vehicle in state 3, 4
\* or 5, or any other, back to an earlier state.
C15_LifecycleOrder ==
    [][car'.state # car.state =>
         <<car.state, car'.state>> \in
           {<<0, 1>>, <<1, 2>>, <<2, 3>>, <<3, 4>>, <<4, 5>>}]_vars

\* the scenario 'traffic light blocks movement': cell 1 a light of period 4
\* with window (2, 4] and counter 1, the vehicle with velocity 1,
\* acceleration 0 and no slowing sent from cell 0 to cell 1, in state 4 on
\* cell 0 when the Move of tick 1 runs
LightBlocksScenario ==
    /\ roadCfg.lightAt = 1
    /\ roadCfg.count = 1
    /\ roadCfg.velocity = 1
    /\ car.acceleration = 0
    /\ ~ car.slowing
    /\ setODs = 1
    /\ car.simplePath = <<0, 1>>
    /\ \E k \in DOMAIN trail : trail[k].time = 1

\* C19 (as claimed): after tick 1 (counter 2, red) the vehicle is on cell 0
\* with velocity 0, after tick 2 (counter 3, green) it is on cell 1.
C19_MovesWhenGreen ==
    LightBlocksScenario =>
      \A k \in DOMAIN trail :
        /\ trail[k].time = 1 => (trail[k].pos = 0 /\ trail[k].velocity = 0)
        /\ trail[k].time = 2 => trail[k].pos = 1

\* C19 (amended): after tick 1 (counter 2, red) the vehicle is on cell 0 with
\* velocity 0, and after tick 2 (counter 3, green) and every later tick it
\* is still on cell 0 with velocity 0: its acceleration is 0.
C19_StaysWhenGreen ==
    LightBlocksScenario =>
      \A k \in DOMAIN trail :
        trail[k].time >= 1 => (trail[k].pos = 0 /\ trail[k].velocity = 0)

\* the Move of tick 2 has run under the green light and left the vehicle
C19_Witness ==
    /\ LightBlocksScenario
    /\ clock = 2
    /\ light.count = 3
    /\ light.phase
    /\ \E k \in DOMAIN trail : trail[k].time = 2
    /\ car.pos = 0
    /\ car.state = 4

\* the scenario 'single cell loop': a ring of four common cells, the vehicle
\* with velocity 0, acceleration 1 and no slowing sent from cell 0 along
\* 0, 1, 2, 3
LoopScenario ==
    /\ roadCfg.lightAt = NoCell
    /\ roadCfg.slowAt = NoCell
    /\ roadCfg.velocity = 0
    /\ car.acceleration = 1
    /\ ~ car.slowing
    /\ setODs = 1
    /\ Len(car.simplePath) >= 4
    /\ SubSeq(car.simplePath, 1, 4) = <<0, 1, 2, 3>>

\* C20 (as claimed): the vehicle advances exactly one cell per Move, through
\* 0, 1, 2, 3, and its trace holds all four cell ids when the trip is over.
C20_OneCellPerMove ==
    LoopScenario =>
      /\ \A k \in DOMAIN trail : trail[k].pos = k % RingSize
      /\ (car.state = 5 /\ car.residualPath = <<>>) =>
           {0, 1, 2, 3} \subseteq TracedCells(car.trace)

\* C20 (amended): no path ends where it starts; the vehicle sent from cell 0
\* to cell 3 along 0, 1, 2, 3 with velocity 0 is on cell 1 with velocity 1
\* after its first Move and on cell 3 with velocity 2 after its second, which
\* ends the trip: it makes no third Move, is never on cell 2, and its trace
\* holds cells 0 and 3 and not cell 2.
C20_FasterEachMove ==
    /\ car.simplePath # <<>> => car.simplePath[1] # car.simplePath[Len(car.simplePath)]
    /\ (LoopScenario /\ car.simplePath = <<0, 1, 2, 3>>) =>
         /\ Len(trail) <= 2
         /\ Len(trail) >= 1 => (trail[1].pos = 1 /\ trail[1].velocity = 1)
         /\ Len(trail) >= 2 =>
              /\ trail[2].pos = 3
              /\ trail[2].velocity = 2
              /\ car.state = 5
              /\ {0, 3} \subseteq TracedCells(car.trace)
              /\ 2 \notin TracedCells(car.trace)

\* the second Move has taken the vehicle from cell 1 to cell 3
C20_Witness ==
    /\ LoopScenario
    /\ car.simplePath = <<0, 1, 2, 3>>
    /\ Len(trail) = 2
    /\ trail[1].pos = 1
    /\ car.pos = 3
    /\ car.state = 5

\* C21: in every Move of a vehicle in state 4 the velocity after accelerate
\* is at least the velocity before it, the velocity after decelerate is at
\* most the gap, and the velocity after the random slowing is the decelerated
\* velocity or that velocity minus 1, and never negative.
C21_NagelStepMonotone ==
    \A k \in DOMAIN trail :
      /\ trail[k].accelerated >= trail[k].before
      /\ trail[k].decelerated <= trail[k].gap
      /\ trail[k].slowed \in {trail[k].decelerated, trail[k].decelerated - 1}
      /\ trail[k].slowed >= 0

\* C22: between two calls on it, a vehicle in state 4 has a velocity of at
\* most the max speed of the cell it is on, right after SystemIn and after a
\* Move into a cell of lower max speed included.
C22_VelocityWithinMaxSpeed ==
    car.state = 4 => car.velocity <= RoadMaxSpeed(car.pos)

\* the main loop is inside a tick, before its aggregation
InTick == pcMain \notin {"init", "agg", "done"}

\* C23: under fair scheduling every tick that has started reaches its
\* aggregation, from wherever it is: the generation, a worker inside
\* UpdateActiveState, SystemIn or the retry loop of Move, the main goroutine
\* at the join of the promote or of the move phase.  (The aggregation is
\* reached only with every worker returned and both joins passed.)
C23_TickCompletes == InTick ~> TickBoundary

\* a tick reached its aggregation after a Move had to retry at its commit
C23_Witness ==
    /\ TickBoundary
    /\ retried # {}

\* a goroutine of GenerateScheduleVehicle gives up in this step
GenerationFails == dropped' # dropped /\ dropped' # {}

\* C24: a step in which the generation of a scheduled vehicle fails adds no
\* vehicle to a registry set and changes none of the four counters.
C24_FailedGenerationLeavesCounters ==
    [][GenerationFails =>
         /\ waitingVehicles' = waitingVehicles
         /\ activeVehicles' = activeVehicles
         /\ completedVehicles' = completedVehicles
         /\ numVehicleGenerated' = numVehicleGenerated
         /\ numVehiclesWaiting' = numVehiclesWaiting
         /\ numVehiclesActive' = numVehiclesActive
         /\ numVehicleCompleted' = numVehicleCompleted]_vars

\* the vehicle has reached its destination and its trip is over
Arrived == car.state = 5 /\ car.residualPath = <<>>

\* C25: the trace of a vehicle that completed its trip holds its origin with
\* the time inTime and its destination with the time outTime, whether it was
\* buffered, promoted and completed in one tick or waited in the buffer
\* before its first Move.
C25_TraceHasEndpoints ==
    Arrived =>
      /\ <<car.origin, car.inTime>> \in car.trace
      /\ <<car.destination, car.outTime>> \in car.trace

\* C26: for a vehicle in state 4 or 5, SystemOut(t1) followed by
\* SystemOut(t2) leaves the vehicle and the cells exactly as SystemOut(t1)
\* alone does: the vehicle in state 5 and absent from the container of its
\* cell, outTime untouched by the second call; and a vehicle in state 5 keeps
\* the outTime it has.
C26_SystemOutIdempotent ==
    car.state \in {4, 5} =>
      \A t1, t2 \in 0 .. MaxClock :
        LET once == SystemOutVehicle(car, t1)
            cells1 == Unload(road, car.pos, CarId)
            twice == SystemOutVehicle(once, t2)
            cells2 == Unload(cells1, once.pos, CarId)
        IN  /\ twice = once
            /\ cells2 = cells1
            /\ once.state = 5
            /\ CarId \notin cells1[car.pos].container
            /\ car.state = 5 => once.outTime = car.outTime

\* a vehicle that Move took to its destination has been unloaded by
\* SystemOut in a later tick and has the outTime of the Move
C26_Witness ==
    /\ Arrived
    /\ CarId \notin road[car.pos].container
    /\ road[car.pos].occupation = 0
    /\ car.outTime < clock

\* the write jobs in the queue of the pool or running in one of its workers
WritesInFlight ==
    Len(writer.jobs) + Cardinality({w \in PoolWorkers : writer.busy[w].kind # "none"})

\* C27: at any time at most one write job given to the pool is queued or
\* running, the last write of the run included.
C27_SingleFlightWrites == WritesInFlight <= 1

C29_ReclaimProcessesEachOnce ==
    /\ [](pcMain = "promote" => completedVehicles = {})
    /\ [][pcMain = "reclaimRun" =>
            \A v \in pending \ pending' : v \notin completedVehicles']_vars

\* the worker slices of every active-set size and every number of workers
\* are disjoint and cover all vehicles
SlicesPartition ==
    \A n \in 1 .. MaxSliceLen, k \in 1 .. MaxSliceWorkers :
      LET nw == Min(k, n) IN
      /\ UNION {VehicleSlice(n, k, i) : i \in 0 .. nw - 1} = 0 .. n - 1
      /\ \A i, j \in 0 .. nw - 1 :
           i # j => VehicleSlice(n, k, i) \cap VehicleSlice(n, k, j) = {}
      /\ k = NumWorkers =>
           \A w \in Workers :
             SliceSize(n, w) = IF w - 1 < nw
                               THEN Cardinality(VehicleSlice(n, k, w - 1)) ELSE 0

\* C30: in the move phase Move is called exactly once on every vehicle that
\* was in the active set when the phase began (the worker slices are
\* disjoint and cover the vehicles, for every number of workers and every
\* size of the set), and every vehicle whose Move returned true goes from the
\* active set to the completed set exactly once.
C30_MoveOncePerActiveVehicle ==
    /\ \A v \in VehSlots : moveCalls[v] <= 1
    /\ pcMain = "move" => SlicesPartition
    /\ pcMain = "moveRun" =>
         /\ \A v \in VehSlots : moveCalls[v] = 1 => v \in activeVehicles \ pending
         /\ \A v \in pending :
              v \in activeVehicles /\ (veh[v].state = 4 \/ (veh[v].state = 3 /\ veh[v].activiate))
         /\ AllJoined =>
              /\ \A v \in activeVehicles : moveCalls[v] = 1
              /\ chan = {v \in activeVehicles : veh[v].state = 5}
              /\ chan \cap completedVehicles = {}
    /\ pcMain = "agg" =>
         \A v \in VehSlots :
           /\ v \in activeVehicles => moveCalls[v] = 1 /\ veh[v].state = 4
           /\ moveCalls[v] = 1 =>
                IF veh[v].state = 5
                THEN v \in completedVehicles /\ v \notin activeVehicles
                ELSE v \in activeVehicles /\ v \notin completedVehicles

\* the move phase of two active vehicles is joined: Move ran on both, one
\* returned true and is in the completed set, the other is still active
C30_Witness ==
    /\ pcMain = "agg"
    /\ \E v, u \in VehSlots :
         /\ v # u
         /\ moveCalls[v] = 1 /\ moveCalls[u] = 1
         /\ v \in completedVehicles /\ veh[v].state = 5
         /\ u \in activeVehicles /\ veh[u].state = 4

\* C31: no Move carries a vehicle into a traffic-light cell whose phase is
\* red or past such a cell: when a vehicle in state 4 advances k cells along
\* its residual path, none of the first k cells of that path is a red light.
C31_NoMoveIntoOrPastRed ==
    [][\A v \in VehSlots :
         (veh[v].state = 4 /\ veh'[v].state \in {4, 5})
           => LET k == Len(veh[v].residualPath) - Len(veh'[v].residualPath) IN
              \A i \in 1 .. Len(veh[v].residualPath) :
                (IsLight(veh[v].residualPath[i]) /\ ~ lightPhase[veh[v].residualPath[i]])
                  => k < i]_vars

\* after the move phase a vehicle on which Move ran stands with velocity 0
\* before an empty traffic light whose phase is red
C31_Witness ==
    /\ pcMain = "agg"
    /\ \E v \in VehSlots :
         /\ moveCalls[v] = 1
         /\ veh[v].state = 4
         /\ veh[v].velocity = 0
         /\ veh[v].residualPath # <<>>
         /\ IsLight(veh[v].residualPath[1])
         /\ ~ lightPhase[veh[v].residualPath[1]]
         /\ cells[veh[v].residualPath[1]].occupation = 0

\* C32: a buffered vehicle whose origin is a traffic-light cell is promoted
\* into the container of that cell (UpdateActiveState true, then SystemIn)
\* only while the light is green: UpdateActiveState does not activate it
\* and SystemIn does not load it while the phase is red.
C32_NoPromotionIntoRed ==
    [][\A v \in VehSlots :
         (veh[v].state = 3 /\ IsLight(veh[v].origin) /\ ~ lightPhase[veh[v].origin])
           => /\ (~ veh[v].activiate => ~ veh'[v].activiate)
              /\ ~ (veh'[v].state = 4 /\ v \in cells'[veh[v].origin].container)]_vars

\* C33: SystemIn moves the vehicle from the buffer to the container of its
\* origin atomically: while a vehicle is out of the buffer and not yet
\* loaded, no other worker is between the two reads of an UpdateActiveState
\* on the same origin (it would count the vehicle in neither), and the step
\* that ends SystemIn leaves the vehicle in the container of its origin,
\* absent from the buffer, positioned on the origin, in state 4, with the
\* origin dropped from the residual path.
C33_SystemInAtomic ==
    /\ [](\A w, u \in Workers :
            (workers[w].pc = "si_load" /\ workers[u].pc = "uas_buffer")
              => veh[workers[u].v].origin # veh[workers[w].v].origin)
    /\ [][\A v \in VehSlots :
            (veh[v].state = 3 /\ veh'[v].state = 4)
              => /\ v \in cells'[veh[v].origin].container
                 /\ FirstIndex(cells'[veh[v].origin].buffer, v) = 0
                 /\ veh'[v].pos = veh[v].origin
                 /\ veh'[v].residualPath = Tail(veh[v].residualPath)]_vars

\* the occupy of the first k entries of a buffer
RECURSIVE OccupyUpTo(_, _)
OccupyUpTo(buf, k) == IF k = 0 THEN 0 ELSE OccupyUpTo(buf, k - 1) + Occupy(buf[k])

\* C34: an UpdateActiveState of v that runs without interference (the
\* occupation it read is still that of the origin) sets activated exactly
\* when v is in the buffer of its origin and the occupation plus the occupy
\* of the buffer entries from the head up to and including v is within the
\* capacity; it changes no cell and no other vehicle.
C34_UpdateActiveStateDecision ==
    [][\A w \in Workers :
         (/\ workers[w].pc = "uas_buffer"
          /\ workers'[w].pc # "uas_buffer"
          /\ workers[w].total = cells[veh[workers[w].v].origin].occupation
          /\ slices)
           => LET v == workers[w].v
                  o == veh[v].origin
                  idx == FirstIndex(cells[o].buffer, v)
              IN  /\ veh'[v].activiate =
                       (/\ idx # 0
                        /\ cells[o].occupation + OccupyUpTo(cells[o].buffer, idx)
                             <= Capacity(o))
                  /\ veh'[v] = [veh[v] EXCEPT !.activiate = veh'[v].activiate]
                  /\ \A u \in VehSlots \ {v} : veh'[u] = veh[u]
                  /\ cells' = cells]_vars

\* the promote phase is joined with two vehicles of one origin, the one at
\* the head of the buffer activated and the one behind it refused
C34_Witness ==
    /\ pcMain = "promoteRun"
    /\ AllJoined
    /\ slices
    /\ \E v \in chan, u \in rejected :
         /\ veh[v].origin = veh[u].origin
         /\ veh[v].activiate
         /\ ~ veh[u].activiate
         /\ FirstIndex(cells[veh[v].origin].buffer, v)
              < FirstIndex(cells[veh[v].origin].buffer, u)

\* C35: the aggregate phase reports an average speed of 0 when no vehicle is
\* on the road (all containers empty), and otherwise the arithmetic mean of
\* the velocities of the vehicles found in the containers.
C35_AverageSpeed ==
    pcMain = "agg" =>
      LET onRoad == GetVehiclesOnRoad(cells)
          averageSpeed == GetAverageSpeed(onRoad)
      IN  /\ ~ averageSpeed.nan
          /\ IF onRoad = {}
             THEN averageSpeed.num = 0
             ELSE /\ averageSpeed.num = TotalSpeed(onRoad)
                  /\ averageSpeed.den = Cardinality(onRoad)

\* C36: every job for which Submit returned true has been executed exactly
\* once by the time Stop returns; no accepted job is dropped when Stop is
\* called while jobs are still queued.
C36_AcceptedJobsRunOnce ==
    /\ \A j \in JobIds : wp.ran[j] <= 1
    /\ wp.stopped => \A j \in wp.accepted : wp.ran[j] = 1

\* C37: for every interleaving of Submit and Stop from different goroutines
\* Submit returns false once the pool is closed, never sends on the closed
\* jobs channel, never blocks forever (a Submit that waits for room in the
\* channel has a worker left to make it), and a second Stop returns without
\* closing the channel again.
C37_SubmitStopSafe ==
    /\ ~ wp.panicked
    /\ wp.accepted \cap wp.late = {}
    /\ wp.closes <= 1
    /\ \A g \in Callers :
         (/\ wp.caller[g].pc = "select"
          /\ Len(wp.jobs) = 2 * Cardinality(PoolWorkers)
          /\ ~ wp.cancelled)
           => \E w \in PoolWorkers : wp.worker[w].pc # "exit"

\* C38: at every tick boundary the three registry sets are pairwise
\* disjoint and agree with the state of the vehicles: a waiting vehicle is
\* in state 3 and in the buffer of its origin, an active vehicle is in
\* state 4, a completed vehicle is in state 5.
C38_RegistryAgreesWithState ==
    TickBoundary =>
      /\ waitingVehicles \cap activeVehicles = {}
      /\ waitingVehicles \cap completedVehicles = {}
      /\ activeVehicles \cap completedVehicles = {}
      /\ \A v \in waitingVehicles :
           veh[v].state = 3 /\ FirstIndex(cells[veh[v].origin].buffer, v) # 0
      /\ \A v \in activeVehicles : veh[v].state = 4
      /\ \A v \in completedVehicles : veh[v].state = 5

\* a tick boundary of the slice scheduler with a vehicle that arrived in
\* this tick in the completed set and another vehicle in the active set
C38_Witness ==
    /\ TickBoundary
    /\ slices
    /\ activeVehicles # {}
    /\ \E v \in completedVehicles : moveCalls[v] = 1

\* C39: after any sequence of Load and Unload calls on a cell, with any
\* vehicles, the occupation is the sum of occupy over the members of the
\* container and lies between 0 and the capacity; a Load or Unload that
\* returns an error leaves container and occupation unchanged.
C39_CellOccupation ==
    /\ [](\A c \in Cells :
            /\ cells[c].occupation = SumOccupy(cells[c].container)
            /\ 0 <= cells[c].occupation
            /\ cells[c].occupation <= Capacity(c))
    /\ [][\A c \in Cells, v \in VehSlots :
            /\ (CellLoad(c, v) /\ ~ LoadAccepts(cells, c, v)) => cells' = cells
            /\ (CellUnload(c, v) /\ v \notin cells[c].container) => cells' = cells]_vars

\* C40: at every tick boundary no vehicle in state 5 is in the container of
\* a cell: a vehicle that arrived in the move phase has been unloaded from its
\* destination cell once the completions of the phase are drained.
C40_CompletedHoldNoCell ==
    TickBoundary => \A v \in VehSlots : veh[v].state = 5 => Holders(v) = {}

\* a tick boundary right after a vehicle arrived at a destination that
\* another vehicle can use again
C40_Witness ==
    /\ TickBoundary
    /\ \E v \in VehSlots :
          /\ veh[v].state = 5
          /\ moveCalls[v] = 1
          /\ v \in completedVehicles
          /\ cells[veh[v].pos].occupation = SumOccupy(cells[veh[v].pos].container)
          /\ Holders(v) = {}

====
